---- MODULE Spec2Model ----
(***************************************************************************)
(* State-machine model of the combat engine of iron-ledger-mono            *)
(* (services/combat-engine): the fixed-step scheduler, the ECS world, the  *)
(* movement / collision / attack systems and the damage / bleed systems.   *)
(*                                                                         *)
(* Units.  The code computes in floats; the model computes in integers:    *)
(*   lengths in millimetres, velocities in mm/s, time steps in ns,         *)
(*   blood in units of 0.001 ml, bleed rates                               *)
(*   in 0.001 ml/s, energies in 0.1 J, speeds in mm/s.                     *)
(* Dict stores are functions whose DOMAIN is the set of entity ids that    *)
(* carry the component; iteration is in ascending id order, which is the   *)
(* insertion order of every wiring in the repository.                      *)
(***************************************************************************)
EXTENDS Integers, Sequences, FiniteSets, TLC

VARIABLES
    passed,     \* the list object handed to FixedStepScheduler(...); the caller keeps it
    built,      \* history: value of that list when the constructor ran
    list_ops,   \* history: number of caller edits of `passed` so far
    systems,    \* FixedStepScheduler.systems (tuple)
    dt_ns,      \* FixedStepScheduler.dt_ns
    pc,         \* position in FixedStepScheduler.run
    num_left,   \* iterations of `for _ in range(num_ticks)` still to do
    sys_idx,    \* index of the next system of the inner loop
    run_n,      \* history: num_ticks argument of the current / last run
    run_start,  \* history: world.tick when the current / last run was entered
    called,     \* history: systems invoked so far in the current tick, in order
    budget,     \* ticks the host will still ask for
    world       \* the World aggregate

schedVars == <<passed, built, list_ops, systems, dt_ns, pc, num_left, sys_idx,
               run_n, run_start, called>>

vars == <<passed, built, list_ops, systems, dt_ns, pc, num_left, sys_idx,
          run_n, run_start, called, budget, world>>

----------------------------------------------------------------------------
(* Bounds of the model *)

MaxSystems == 2        \* longest system list handed to the constructor
MaxListOps == 1        \* caller edits of the passed list
MaxRun == 2            \* largest num_ticks of one run call
MaxPhaseTicks == 2     \* largest windup / active / recovery tick count
SchedTicks == 4        \* ticks requested in the scheduler specification
AttackTicks == 125     \* ticks requested in the attack specification
HealthTicks == 4       \* ticks requested in the health specification
MaxImpacts == 2        \* impacts the host posts in the health specification
CollisionTicks == 3    \* ticks requested in the collision specification
BoutTicks == 130       \* tick budget (max_ticks) of the simulated bout
RecoveryTicks == 500   \* idle ticks of the stamina recovery scenario
MaxEcsOps == 5         \* operations on the id generator and on a component store
DeliveryTicks == 65    \* ticks of the attack-and-damage specification
FatigueTicks == 5      \* ticks of the fatigue and morale specification
MaxHostPosts == 3      \* events the host posts in the fatigue and morale specification

(* Program constants *)

DEFAULT_DT_NS == 20000000
DEFAULT_AUTOSWING == 60
ARENA_RADIUS == 20000
EPSILON_NUDGE == 1
ANG90 == 15708                 \* math.radians(90) * 10000

Entities == {0, 1}
NoTarget == -1                 \* AttackState.target_id = None

----------------------------------------------------------------------------
(* Integer helpers standing in for float arithmetic *)

Abs(x) == IF x < 0 THEN -x ELSE x
Max2(a, b) == IF a >= b THEN a ELSE b
Min2(a, b) == IF a <= b THEN a ELSE b

\* a / b rounded to the nearest integer (b > 0)
RDiv(a, b) == (2 * a + b) \div (2 * b)

RECURSIVE SqrtIter(_, _, _)
SqrtIter(n, lo, hi) ==
    IF lo >= hi THEN lo
    ELSE LET mid == (lo + hi + 1) \div 2
         IN IF mid * mid <= n THEN SqrtIter(n, mid, hi)
                              ELSE SqrtIter(n, lo, mid - 1)

\* math.sqrt / math.hypot, truncated to the millimetre
ISqrt(n) == SqrtIter(n, 0, Min2(n, 46340))

\* ascending sequence of the elements of a finite set of integers
RECURSIVE SortedSeq(_)
SortedSeq(S) ==
    IF S = {} THEN <<>>
    ELSE LET m == CHOOSE x \in S : \A y \in S : x <= y
         IN <<m>> \o SortedSeq(S \ {m})

----------------------------------------------------------------------------
(* Events: one record shape for every event class *)

NoField == -1

NoXY == <<NoField, NoField>>

Event(kind, tick, eid, other, speed, mass, edge, part, limb, action, cause) ==
    [kind |-> kind, tick |-> tick, entity_id |-> eid, defender_id |-> other,
     relative_speed |-> speed, weapon_mass |-> mass, edge_type |-> edge,
     contact_part |-> part, limb_idx |-> limb, action_id |-> action,
     cause |-> cause, contact_xy |-> NoXY, metres_moved |-> 0]

\* attack.ImpactEvent: carries no limb_idx attribute
AttackImpactEvent(tick, attacker, defender, xy, speed, mass, edge, part) ==
    [Event("ImpactEvent", tick, attacker, defender, speed, mass, edge, part,
           NoField, "", "") EXCEPT !.contact_xy = xy]

ActivitySampleEvent(tick, eid, action, moved) ==
    [Event("ActivitySampleEvent", tick, eid, NoField, 0, 0, "", "", NoField,
           action, "") EXCEPT !.metres_moved = moved]

\* an impact object that satisfies the health.ImpactEvent protocol (has limb_idx)
HealthImpactEvent(tick, attacker, defender, speed, mass, edge, limb) ==
    Event("ImpactEvent", tick, attacker, defender, speed, mass, edge, "", limb, "", "")

DeathEvent(tick, eid, cause) ==
    Event("DeathEvent", tick, eid, NoField, 0, 0, "", "", NoField, "", cause)

ExhaustionEvent(tick, eid) ==
    Event("ExhaustionEvent", tick, eid, NoField, 0, 0, "", "", NoField, "", "")

SurrenderEvent(tick, eid, cause) ==
    Event("SurrenderEvent", tick, eid, NoField, 0, 0, "", "", NoField, "", cause)

\* World.post_event; `log` is a history of the terminal-relevant events posted,
\* `sampled` a history of the <<tick, entity>> pairs of the activity samples posted
LoggedKinds == {"ImpactEvent", "DeathEvent", "SurrenderEvent"}

post_event(w, evt) ==
    [w EXCEPT !.events = Append(@, evt),
              !.log = IF evt.kind \in LoggedKinds THEN Append(@, evt) ELSE @,
              !.sampled = IF evt.kind = "ActivitySampleEvent"
                          THEN @ \cup {<<evt.tick, evt.entity_id>>} ELSE @]

\* World.consume_events(cls): the matched events and the events left in the deque
Matched(evq, kinds) == SelectSeq(evq, LAMBDA e : e.kind \in kinds)
Rest(evq, kinds) == SelectSeq(evq, LAMBDA e : e.kind \notin kinds)

\* a flush that forgets the event deque
flush_keeps_events(w) == [w EXCEPT !.deferred = <<>>]

\* World.flush
flush(w) == [w EXCEPT !.events = <<>>, !.deferred = <<>>]

----------------------------------------------------------------------------
(* FixedStepScheduler.__init__ : stable sort by priority, missing = 0 *)

AllSystems == {"move", "col", "atk", "dmg", "bleed"}

Priority(s) ==
    CASE s = "move" -> 10
      [] s = "col"  -> 20
      [] OTHER      -> 0

\* an insertion that puts a system before the systems of equal priority
RECURSIVE InsertBeforeEqual(_, _)
InsertBeforeEqual(sorted, s) ==
    IF sorted = <<>> THEN <<s>>
    ELSE IF Priority(Head(sorted)) < Priority(s)
         THEN <<Head(sorted)>> \o InsertBeforeEqual(Tail(sorted), s)
         ELSE <<s>> \o sorted

RECURSIVE InsertByPriority(_, _)
InsertByPriority(sorted, s) ==
    IF sorted = <<>> THEN <<s>>
    ELSE IF Priority(Head(sorted)) <= Priority(s)
         THEN <<Head(sorted)>> \o InsertByPriority(Tail(sorted), s)
         ELSE <<s>> \o sorted

RECURSIVE SortedByPriority(_)
SortedByPriority(list) ==
    IF list = <<>> THEN <<>>
    ELSE InsertByPriority(SortedByPriority(SubSeq(list, 1, Len(list) - 1)),
                          list[Len(list)])

----------------------------------------------------------------------------
(* MovementSystem.__call__ *)

MoveStep(v) == RDiv(v * (DEFAULT_DT_NS \div 1000000), 1000)

RECURSIVE MoveEntities(_, _)
MoveEntities(w, eids) ==
    IF eids = <<>> THEN w
    ELSE LET eid == Head(eids)
         IN IF eid \in DOMAIN w.vel
            THEN LET v == w.vel[eid]
                     p == w.pos[eid]
                     moved == [x |-> p.x + MoveStep(v.vx),
                               y |-> p.y + MoveStep(v.vy)]
                     w1 == [w EXCEPT !.pos[eid] = moved]
                 IN MoveEntities(
                        post_event(w1, ActivitySampleEvent(w.tick, eid, "walk_step",
                                   ISqrt(MoveStep(v.vx) * MoveStep(v.vx)
                                         + MoveStep(v.vy) * MoveStep(v.vy)))),
                        Tail(eids))
            ELSE MoveEntities(w, Tail(eids))

MovementSystem(w) == MoveEntities(w, SortedSeq(DOMAIN w.pos))

----------------------------------------------------------------------------
(* CollisionSystem.__call__ and _resolve_pairs *)

\* _SpatialHash._key
CellKey(p, cell) == <<p.x \div cell, p.y \div cell>>

\* one overlap test of _resolve_pairs (lines 205-227)
ResolvePair(pos, rad, ea, eb) ==
    IF ea \notin DOMAIN pos \/ ea \notin DOMAIN rad
       \/ eb \notin DOMAIN pos \/ eb \notin DOMAIN rad
    THEN pos
    ELSE LET dx == pos[ea].x - pos[eb].x
             dy == pos[ea].y - pos[eb].y
             dist2 == dx * dx + dy * dy
             sum_r == rad[ea] + rad[eb]
         IN IF dist2 >= sum_r * sum_r THEN pos
            ELSE IF dist2 = 0
            THEN [pos EXCEPT ![ea].x = @ + EPSILON_NUDGE,
                             ![eb].x = @ - EPSILON_NUDGE]
            ELSE LET dist == ISqrt(dist2)
                     nx == RDiv(dx * (sum_r - dist), 2 * dist)
                     ny == RDiv(dy * (sum_r - dist), 2 * dist)
                 IN [pos EXCEPT ![ea] = [x |-> @.x + nx, y |-> @.y + ny],
                                ![eb] = [x |-> @.x - nx, y |-> @.y - ny]]

RECURSIVE ResolveInner(_, _, _, _)
ResolveInner(pos, rad, ea, others) ==
    IF others = <<>> THEN pos
    ELSE ResolveInner(ResolvePair(pos, rad, ea, Head(others)), rad, ea,
                      Tail(others))

RECURSIVE ResolveFrom(_, _, _, _, _, _)
ResolveFrom(pos, rad, bucket_a, bucket_b, same, i) ==
    IF i > Len(bucket_a) THEN pos
    ELSE LET others == IF same THEN SubSeq(bucket_b, i + 1, Len(bucket_b))
                       ELSE bucket_b
         IN ResolveFrom(ResolveInner(pos, rad, bucket_a[i], others),
                        rad, bucket_a, bucket_b, same, i + 1)

_resolve_pairs(pos, rad, bucket_a, bucket_b, same) ==
    ResolveFrom(pos, rad, bucket_a, bucket_b, same, 1)

\* the bucket of a cell: entity ids in insertion order
Bucket(pos0, cell, key) ==
    SelectSeq(SortedSeq(DOMAIN pos0), LAMBDA e : CellKey(pos0[e], cell) = key)

\* neighbour cells visited for cell <<ix, iy>>, in the code's order
Neighbours(key) ==
    << <<key[1] + 1, key[2]>>,
       <<key[1], key[2] + 1>>, <<key[1] + 1, key[2] + 1>>,
       <<key[1], key[2] - 1>>, <<key[1] + 1, key[2] - 1>> >>

RECURSIVE ResolveNeighbours(_, _, _, _, _, _)
ResolveNeighbours(pos, pos0, rad, cell, bucket, nbs) ==
    IF nbs = <<>> THEN pos
    ELSE LET nb == Bucket(pos0, cell, Head(nbs))
         IN ResolveNeighbours(
                IF nb = <<>> THEN pos
                ELSE _resolve_pairs(pos, rad, bucket, nb, FALSE),
                pos0, rad, cell, bucket, Tail(nbs))

RECURSIVE ResolveCells(_, _, _, _, _)
ResolveCells(pos, pos0, rad, cell, keys) ==
    IF keys = <<>> THEN pos
    ELSE LET bucket == Bucket(pos0, cell, Head(keys))
             p1 == _resolve_pairs(pos, rad, bucket, bucket, TRUE)
         IN ResolveCells(
                ResolveNeighbours(p1, pos0, rad, cell, bucket, Neighbours(Head(keys))),
                pos0, rad, cell, Tail(keys))

\* the overlap tests of one _resolve_pairs call, as pairs <<ea, eb>> in the
\* order of the loops; an entity without position or radius is skipped (lines
\* 200-201 and 206-207)
RECURSIVE TestsFrom(_, _, _, _, _)
TestsFrom(has, bucket_a, bucket_b, same, i) ==
    IF i > Len(bucket_a) THEN <<>>
    ELSE LET ea == bucket_a[i]
             others == IF same THEN SubSeq(bucket_b, i + 1, Len(bucket_b))
                       ELSE bucket_b
             sel == SelectSeq(others, LAMBDA e : e \in has)
             mine == IF ea \in has THEN [k \in 1..Len(sel) |-> <<ea, sel[k]>>]
                     ELSE <<>>
         IN mine \o TestsFrom(has, bucket_a, bucket_b, same, i + 1)

RECURSIVE NeighbourTests(_, _, _, _, _)
NeighbourTests(pos0, has, cell, bucket, nbs) ==
    IF nbs = <<>> THEN <<>>
    ELSE TestsFrom(has, bucket, Bucket(pos0, cell, Head(nbs)), FALSE, 1)
         \o NeighbourTests(pos0, has, cell, bucket, Tail(nbs))

\* the overlap tests of step 3 of one CollisionSystem call (lines 161-174)
RECURSIVE CellTests(_, _, _, _)
CellTests(pos0, has, cell, keys) ==
    IF keys = <<>> THEN <<>>
    ELSE LET bucket == Bucket(pos0, cell, Head(keys))
         IN TestsFrom(has, bucket, bucket, TRUE, 1)
            \o NeighbourTests(pos0, has, cell, bucket, Neighbours(Head(keys)))
            \o CellTests(pos0, has, cell, Tail(keys))

\* grid keys in order of first insertion
RECURSIVE GridKeys(_, _, _, _)
GridKeys(pos0, cell, eids, seen) ==
    IF eids = <<>> THEN seen
    ELSE LET k == CellKey(pos0[Head(eids)], cell)
         IN GridKeys(pos0, cell, Tail(eids),
                     IF \E i \in 1..Len(seen) : seen[i] = k THEN seen
                     ELSE Append(seen, k))

\* rim clamp of one entity (lines 178-192)
RimClamp(p, r) ==
    LET r_eff == ARENA_RADIUS - r
        d2 == p.x * p.x + p.y * p.y
    IN IF d2 > r_eff * r_eff
       THEN LET dist == ISqrt(d2)
            IN [x |-> RDiv(p.x * r_eff, dist), y |-> RDiv(p.y * r_eff, dist)]
       ELSE p

CollisionSystem(w) ==
    LET radii == {w.rad[e] : e \in DOMAIN w.rad}
        max_r == IF radii = {} THEN 0 ELSE CHOOSE r \in radii : \A q \in radii : q <= r
        cell == Max2(10, 2 * max_r)
        keys == GridKeys(w.pos, cell, SortedSeq(DOMAIN w.pos), <<>>)
        resolved == ResolveCells(w.pos, w.pos, w.rad, cell, keys)
        clamped == [e \in DOMAIN resolved |->
                       IF e \in DOMAIN w.rad THEN RimClamp(resolved[e], w.rad[e])
                       ELSE resolved[e]]
    IN [w EXCEPT !.pos = clamped,
                 !.tested = CellTests(w.pos, DOMAIN w.pos \cap DOMAIN w.rad, cell, keys)]

----------------------------------------------------------------------------
(* AttackSystem.__call__ *)

\* math.cos / math.sin of an angle in milliradians, scaled by 1000
Cos1000(x) ==
    LET x2 == RDiv(x * x, 1000)
    IN 1000 - RDiv(x2, 2) + RDiv(x2 * x2, 24000) - RDiv(x2 * x2 * x2, 720000000)

Sin1000(x) ==
    LET x2 == RDiv(x * x, 1000)
    IN x - RDiv(x * x2, 6000) + RDiv(x * x2 * x2, 120000000)

\* theta_rad of the swing arc: +30 deg at t = 0 down to -60 deg at t = 1,
\* with t = 1 - ticks_left / active_ticks
ThetaMrad(ticks_left, active_ticks) ==
    RDiv((30 * active_ticks - 90 * (active_ticks - ticks_left)) * 17453,
         1000 * active_ticks)

AttackState == [phase |-> "IDLE", ticks_left |-> 0, target_id |-> NoTarget,
                profile_idx |-> 1, swing_id |-> 0, has_hit |-> FALSE]

\* an auto intent without the cadence test
AutoIntentEveryTick(state, weapon, opp_id, tick) ==
    IF state.phase = "IDLE"
    THEN [state EXCEPT !.profile_idx = 1,
                       !.phase = "WINDUP",
                       !.ticks_left = weapon.profiles[1].windup_ticks,
                       !.target_id = opp_id,
                       !.has_hit = FALSE]
    ELSE state

\* lines 157-164: auto intent
AutoIntent(state, weapon, opp_id, tick) ==
    IF state.phase = "IDLE" /\ tick % DEFAULT_AUTOSWING = 0
    THEN [state EXCEPT !.profile_idx = 1,
                       !.phase = "WINDUP",
                       !.ticks_left = weapon.profiles[1].windup_ticks,
                       !.target_id = opp_id,
                       !.has_hit = FALSE]
    ELSE state

\* a countdown whose ACTIVE branch is an `if` after the WINDUP branch, not an `elif`
CountdownFallsThrough(state, weapon) ==
    IF state.phase # "IDLE"
    THEN LET left == state.ticks_left - 1
             prof == weapon.profiles[state.profile_idx]
         IN IF left <= 0
            THEN CASE state.phase \in {"WINDUP", "ACTIVE"} ->
                        [state EXCEPT !.phase = "RECOVERY", !.ticks_left = prof.recovery_ticks]
                   [] OTHER -> [state EXCEPT !.phase = "IDLE", !.ticks_left = left, !.swing_id = @ + 1]
            ELSE [state EXCEPT !.ticks_left = left]
    ELSE state

\* lines 166-176: countdown and phase changes
Countdown(state, weapon) ==
    IF state.phase # "IDLE"
    THEN LET left == state.ticks_left - 1
             prof == weapon.profiles[state.profile_idx]
         IN IF left <= 0
            THEN CASE state.phase = "WINDUP" ->
                        [state EXCEPT !.phase = "ACTIVE",
                                      !.ticks_left = prof.active_ticks]
                   [] state.phase = "ACTIVE" ->
                        [state EXCEPT !.phase = "RECOVERY",
                                      !.ticks_left = prof.recovery_ticks]
                   [] OTHER ->
                        [state EXCEPT !.phase = "IDLE",
                                      !.ticks_left = left,
                                      !.swing_id = @ + 1]
            ELSE [state EXCEPT !.ticks_left = left]
    ELSE state

\* a scan that goes on after a capsule has touched and keeps the last one
RECURSIVE LastContact(_, _, _, _, _, _, _)
LastContact(segs, i, ap, dp, dc, u, factor) ==
    IF i > Len(segs) THEN 0
    ELSE LET seg == segs[i]
             cx == ap.x + RDiv(u.x * seg.offset_m * factor.num, 1000 * factor.den)
             cy == ap.y + RDiv(u.y * seg.offset_m * factor.num, 1000 * factor.den)
             ddx == dp.x - cx
             ddy == dp.y - cy
             limit == seg.radius_m + dc
             later == LastContact(segs, i + 1, ap, dp, dc, u, factor)
         IN IF later # 0 THEN later
            ELSE IF ddx * ddx + ddy * ddy <= limit * limit THEN i ELSE 0

\* lines 224-236: index of the first hit segment that touches the defender, 0 if none
RECURSIVE FirstContact(_, _, _, _, _, _, _)
FirstContact(segs, i, ap, dp, dc, u, factor) ==
    IF i > Len(segs) THEN 0
    ELSE LET seg == segs[i]
             cx == ap.x + RDiv(u.x * seg.offset_m * factor.num, 1000 * factor.den)
             cy == ap.y + RDiv(u.y * seg.offset_m * factor.num, 1000 * factor.den)
             ddx == dp.x - cx
             ddy == dp.y - cy
             limit == seg.radius_m + dc
         IN IF ddx * ddx + ddy * ddy <= limit * limit THEN i
            ELSE FirstContact(segs, i + 1, ap, dp, dc, u, factor)

\* lines 225-226: the centre (cx, cy) of a hit capsule
Contact(seg, ap, u, factor) ==
    << ap.x + RDiv(u.x * seg.offset_m * factor.num, 1000 * factor.den),
       ap.y + RDiv(u.y * seg.offset_m * factor.num, 1000 * factor.den) >>

\* a hit that posts the impact without the stamina sample
PostHitNoSample(w, impact, prof) == post_event(w, impact)

\* lines 241-259: the impact, then the attacker's stamina sample (zero travel)
PostHit(w, impact, prof) ==
    post_event(post_event(w, impact),
               ActivitySampleEvent(impact.tick, impact.entity_id, prof.action_id, 0))

\* lines 182-261: the contact test of one attacker in the ACTIVE phase
\* acc = [w |-> world, theta |-> whether the local theta_deg has been assigned]
HitCheck(acc, eid, state, weapon, dt) ==
    LET w == acc.w
        prof == weapon.profiles[state.profile_idx]
        tgt == state.target_id
        stored == [w EXCEPT !.st[eid] = state]
    IN IF eid \notin DOMAIN w.pos \/ tgt \notin DOMAIN w.pos \/ tgt \notin DOMAIN w.rad
       THEN [acc EXCEPT !.w = stored]
       ELSE IF prof.active_ticks = 0
       THEN [acc EXCEPT !.w = [stored EXCEPT !.raised = "ZeroDivisionError"]]
       ELSE IF prof.kind # "swing" /\ ~acc.theta
       THEN [acc EXCEPT !.w = [stored EXCEPT !.raised = "UnboundLocalError"]]
       ELSE
       LET ap == w.pos[eid]
           dp == w.pos[tgt]
           dx == dp.x - ap.x
           dy == dp.y - ap.y
           dist == ISqrt(dx * dx + dy * dy)
           Hx == IF dist = 0 THEN 0 ELSE RDiv(dx * 1000, dist)
           Hy == IF dist = 0 THEN 0 ELSE RDiv(dy * 1000, dist)
           theta == ThetaMrad(state.ticks_left, prof.active_ticks)
           u == IF prof.kind = "swing"
                THEN [x |-> RDiv(Cos1000(theta) * Hx - Sin1000(theta) * Hy, 1000),
                      y |-> RDiv(Cos1000(theta) * Hy + Sin1000(theta) * Hx, 1000)]
                ELSE [x |-> Hx, y |-> Hy]
           factor == IF prof.kind = "swing"
                     THEN [num |-> 1, den |-> 1]
                     ELSE [num |-> prof.active_ticks - state.ticks_left,
                           den |-> prof.active_ticks]
           v_lin == IF prof.kind = "swing"
                    THEN RDiv(weapon.max_offset * ANG90, 10000 * prof.active_ticks)
                    ELSE RDiv(weapon.max_offset * 1000,
                              prof.active_ticks * (dt \div 1000000))
           hit == FirstContact(weapon.hit_segments, 1, ap, dp, w.rad[tgt], u, factor)
           bound == acc.theta \/ prof.kind = "swing"
       IN IF hit = 0
          THEN [acc EXCEPT !.w = stored, !.theta = bound]
          ELSE LET w2 == PostHit(stored,
                            AttackImpactEvent(w.tick, eid, tgt,
                                              Contact(weapon.hit_segments[hit], ap, u, factor),
                                              v_lin, weapon.mass_kg,
                                              weapon.edge_type,
                                              weapon.hit_segments[hit].tag),
                            prof)
               IN [acc EXCEPT !.w = [w2 EXCEPT !.st[eid].has_hit = TRUE,
                                                !.hitlog = Append(@, <<eid, state.swing_id>>)],
                              !.theta = bound]

\* an early-out that forgets the has_hit flag
AttackEntityIgnoresHasHit(acc, eid) ==
    LET w == acc.w
    IN IF w.raised # "none" \/ eid \notin DOMAIN w.wep THEN acc
       ELSE IF eid \notin DOMAIN w.opp
       THEN [acc EXCEPT !.w.raised = "AttributeError"]
       ELSE LET weapon == w.wep[eid]
                s1 == AutoIntent(w.st[eid], weapon, w.opp[eid], w.tick)
                s2 == Countdown(s1, weapon)
            IN IF s2.phase # "ACTIVE"
               THEN [acc EXCEPT !.w.st[eid] = s2]
               ELSE HitCheck(acc, eid, s2, weapon, acc.dt)

\* lines 147-187: one iteration of `for eid, state in st_s.items()`
AttackEntity(acc, eid) ==
    LET w == acc.w
    IN IF w.raised # "none" \/ eid \notin DOMAIN w.wep THEN acc
       ELSE IF eid \notin DOMAIN w.opp
       THEN [acc EXCEPT !.w.raised = "AttributeError"]
       ELSE LET weapon == w.wep[eid]
                s1 == AutoIntent(w.st[eid], weapon, w.opp[eid], w.tick)
                s2 == Countdown(s1, weapon)
            IN IF s2.phase # "ACTIVE" \/ s2.has_hit
               THEN [acc EXCEPT !.w.st[eid] = s2]
               ELSE HitCheck(acc, eid, s2, weapon, acc.dt)

RECURSIVE AttackEntities(_, _)
AttackEntities(acc, eids) ==
    IF eids = <<>> THEN acc
    ELSE AttackEntities(AttackEntity(acc, Head(eids)), Tail(eids))

\* lines 143-145: bootstrap states, then the main loop
AttackSystem(w, dt) ==
    LET boot == [e \in DOMAIN w.st \cup DOMAIN w.wep |->
                    IF e \in DOMAIN w.st THEN w.st[e] ELSE AttackState]
        w0 == [w EXCEPT !.st = boot]
    IN AttackEntities([w |-> w0, theta |-> FALSE, dt |-> dt],
                      SortedSeq(DOMAIN boot)).w

----------------------------------------------------------------------------
(* health.py : anatomy tables *)

REGIONS == <<"head", "neck", "thorax", "abdomen",
             "left_arm", "right_arm", "left_leg", "right_leg">>

\* DEFAULT_LIMB_HP: (skin, muscle, bone) per region, in REGIONS order
DEFAULT_LIMB_HP == << <<15, 25, 20>>, <<10, 10, 0>>, <<18, 30, 18>>, <<18, 28, 15>>,
                      <<12, 22, 12>>, <<12, 22, 12>>, <<14, 24, 14>>, <<14, 24, 14>> >>

\* BONE_BREAK_THRESHOLD_J per region, in 0.1 J
BONE_BREAK_THRESHOLD_J == <<800, 600, 1200, 1000, 600, 600, 600, 600>>

Organ(name, hp, cat) ==
    [name |-> name, max_hp |-> hp, curr_hp |-> hp, base_cat_rate |-> cat]

\* VITAL_ORGANS with DEFAULT_ORGAN_HP and BLEED_RATE_CATASTRO (0.001 ml/s);
\* <<>> stands for None
DefaultOrgans ==
    << <<Organ("brain", 15, 0)>>,
       <<Organ("carotid", 10, 150000)>>,
       <<Organ("heart", 15, 120000), Organ("left_lung", 12, 20000),
         Organ("right_lung", 12, 20000)>>,
       <<Organ("liver", 15, 50000), Organ("spleen", 12, 60000),
         Organ("left_kidney", 10, 30000), Organ("right_kidney", 10, 30000)>>,
       <<>>, <<>>, <<>>, <<>> >>

DefaultLimbs ==
    [i \in 1..Len(REGIONS) |->
        [name |-> REGIONS[i],
         max_skin |-> DEFAULT_LIMB_HP[i][1], max_muscle |-> DEFAULT_LIMB_HP[i][2],
         max_bone |-> DEFAULT_LIMB_HP[i][3],
         curr_skin |-> DEFAULT_LIMB_HP[i][1], curr_muscle |-> DEFAULT_LIMB_HP[i][2],
         curr_bone |-> DEFAULT_LIMB_HP[i][3]]]

BONE_HARDNESS_FACTOR == 150      \* 15.0 J per bone HP, in 0.1 J
SOFT_ENERGY_PER_HP_SKIN == 10
SOFT_ENERGY_PER_HP_MUSCLE == 7
K1_EXTERNAL == 5000              \* 5.0 ml/s/cm, in 0.001 ml/s
K2_INTERNAL == 30000             \* 30.0 ml/s, in 0.001 ml/s

\* LAYERS: thickness in 0.001 cm
LAYERS == << [name |-> "skin", thickness |-> 200],
             [name |-> "muscle", thickness |-> 2000],
             [name |-> "bone", thickness |-> 1300],
             [name |-> "organ", thickness |-> 1000] >>
TOTAL_STACK_CM == 4500

\* SHEAR_COEFF in tenths; unknown edge -> 0
ShearCoeff10(edge) ==
    CASE edge = "slash" -> 6
      [] edge = "pierce" -> 10
      [] OTHER -> 0

\* penetration_fraction, in per cent
penetration_fraction(edge, speed) ==
    LET bins == CASE edge = "blunt"  -> <<0, 10, 25, 40>>
                  [] edge = "slash"  -> <<5, 25, 60, 90>>
                  [] edge = "pierce" -> <<10, 40, 80, 100>>
    IN IF speed < 2000 THEN bins[1]
       ELSE IF speed < 5000 THEN bins[2]
       ELSE IF speed < 8000 THEN bins[3]
       ELSE bins[4]

\* stand-in for random.Random: a full-period linear congruential generator
RngModulus == 32
RngNext(x) == (5 * x + 3) % RngModulus
\* rng.random() < 0.25 on the value just drawn
RngBelowQuarter(x) == 4 * x < RngModulus
\* rng.choice(seq): 1-based index chosen by the value just drawn
RngIndex(x, n) == (x * n) \div RngModulus + 1

CeilDiv(a, b) == (a + b - 1) \div b

\* int(round(a / b)) of Python 3: ties go to the even integer
RoundHalfEven(a, b) ==
    LET q == a \div b
        r2 == 2 * (a % b)
    IN IF r2 < b THEN q
       ELSE IF r2 > b THEN q + 1
       ELSE IF q % 2 = 0 THEN q ELSE q + 1

AddBleed(w, eid, limb_idx, rate, internal) ==
    [w EXCEPT !.bleed_sources =
        [e \in DOMAIN @ \cup {eid} |->
            Append(IF e \in DOMAIN @ THEN @[e] ELSE <<>>,
                   [limb_idx |-> limb_idx, rate_ml_s |-> rate, internal |-> internal])]]

----------------------------------------------------------------------------
(* DamageSystem *)

\* lines 298-309: crush damage to every organ of a fractured region
\* a crush loop that tests `curr_hp < 0` after the clamp
RECURSIVE CrushOrgansStrictTest(_, _, _, _)
CrushOrgansStrictTest(w, def, li, oi) ==
    IF oi > Len(w.organs[def][li]) THEN w
    ELSE LET x == RngNext(w.rng)
             w0 == [w EXCEPT !.rng = x]
         IN IF RngBelowQuarter(x)
            THEN LET organ == w.organs[def][li][oi]
                     hp == Max2(0, organ.curr_hp - 1)
                     w1 == [w0 EXCEPT !.organs[def][li][oi].curr_hp = hp]
                     w2 == AddBleed(w1, def, li, Max2(K2_INTERNAL, organ.base_cat_rate), TRUE)
                     w3 == IF hp < 0
                           THEN post_event(w2, DeathEvent(w.tick, def, "organ_failure"))
                           ELSE w2
                 IN CrushOrgansStrictTest(w3, def, li, oi + 1)
            ELSE CrushOrgansStrictTest(w0, def, li, oi + 1)

RECURSIVE CrushOrgans(_, _, _, _)
CrushOrgans(w, def, li, oi) ==
    IF oi > Len(w.organs[def][li]) THEN w
    ELSE LET x == RngNext(w.rng)
             w0 == [w EXCEPT !.rng = x]
         IN IF RngBelowQuarter(x)
            THEN LET organ == w.organs[def][li][oi]
                     hp == Max2(0, organ.curr_hp - 1)
                     w1 == [w0 EXCEPT !.organs[def][li][oi].curr_hp = hp]
                     w2 == AddBleed(w1, def, li, Max2(K2_INTERNAL, organ.base_cat_rate), TRUE)
                     w3 == IF hp <= 0
                           THEN post_event(w2, DeathEvent(w.tick, def, "organ_failure"))
                           ELSE w2
                 IN CrushOrgans(w3, def, li, oi + 1)
            ELSE CrushOrgans(w0, def, li, oi + 1)

\* a crush pipeline that reaches the organs without testing bone_fractured()
CrushPipelineNoFractureTest(w, hit, ke_crush) ==
    LET def == hit.defender_id
        li == hit.limb_idx
        limb == w.limbs[def][li]
        threshold == BONE_BREAK_THRESHOLD_J[li]
    IN IF ke_crush < threshold
       THEN [w EXCEPT
               !.limbs[def][li].curr_skin =
                   Max2(0, @ - Max2(1, (ke_crush * 33) \div (1000 * SOFT_ENERGY_PER_HP_SKIN))),
               !.limbs[def][li].curr_muscle =
                   Max2(0, @ - Max2(1, (ke_crush * 67) \div (1000 * SOFT_ENERGY_PER_HP_MUSCLE)))]
       ELSE LET bone_dmg_hp == Max2(1, RoundHalfEven(ke_crush - threshold, BONE_HARDNESS_FACTOR))
                bone == Max2(0, limb.curr_bone - bone_dmg_hp)
                w1 == [w EXCEPT !.limbs[def][li].curr_bone = bone]
            IN IF w.organs[def] # <<>> /\ w.organs[def][li] # <<>>
               THEN CrushOrgans(w1, def, li, 1)
               ELSE w1

\* lines 277-309: crush / blunt pipeline
CrushPipeline(w, hit, ke_crush) ==
    LET def == hit.defender_id
        li == hit.limb_idx
        limb == w.limbs[def][li]
        threshold == BONE_BREAK_THRESHOLD_J[li]
    IN IF ke_crush < threshold
       THEN [w EXCEPT
               !.limbs[def][li].curr_skin =
                   Max2(0, @ - Max2(1, (ke_crush * 33) \div (1000 * SOFT_ENERGY_PER_HP_SKIN))),
               !.limbs[def][li].curr_muscle =
                   Max2(0, @ - Max2(1, (ke_crush * 67) \div (1000 * SOFT_ENERGY_PER_HP_MUSCLE)))]
       ELSE LET bone_dmg_hp == Max2(1, RoundHalfEven(ke_crush - threshold, BONE_HARDNESS_FACTOR))
                bone == Max2(0, limb.curr_bone - bone_dmg_hp)
                w1 == [w EXCEPT !.limbs[def][li].curr_bone = bone]
            IN IF bone <= 0 /\ w.organs[def] # <<>> /\ w.organs[def][li] # <<>>
               THEN CrushOrgans(w1, def, li, 1)
               ELSE w1

\* int(proportion * organ.max_hp) with proportion = min(1.0, remaining / thickness);
\* a remaining depth of the whole organ layer is 0.9999999999999998 in floats
OrganDamage(remaining, thickness, max_hp) ==
    IF remaining >= thickness
    THEN Max2(1, max_hp - 1)
    ELSE Max2(1, (remaining * max_hp) \div thickness)

\* lines 317-372: the depth walk, from layer k on
RECURSIVE ShearPipeline(_, _, _, _)
ShearPipeline(w, hit, remaining, k) ==
    IF k > Len(LAYERS) \/ remaining <= 0 THEN w
    ELSE
    LET def == hit.defender_id
        li == hit.limb_idx
        limb == w.limbs[def][li]
        layer == LAYERS[k]
        damage_pool == Min2(remaining, layer.thickness)
    IN IF layer.name = "organ" /\ w.organs[def] # <<>> /\ w.organs[def][li] # <<>>
       THEN LET x == RngNext(w.rng)
                oi == RngIndex(x, Len(w.organs[def][li]))
                organ == w.organs[def][li][oi]
                dmg_hp == OrganDamage(remaining, layer.thickness, organ.max_hp)
                hp == Max2(0, organ.curr_hp - dmg_hp)
                rate == Max2(organ.base_cat_rate, RDiv(K2_INTERNAL * dmg_hp, organ.max_hp))
                w1 == [w EXCEPT !.rng = x, !.organs[def][li][oi].curr_hp = hp]
                w2 == AddBleed(w1, def, li, rate, TRUE)
            IN IF hp <= 0
               THEN post_event(w2, DeathEvent(w.tick, def, "organ_failure"))
               ELSE w2
       ELSE LET w1 ==
                  CASE layer.name = "skin" ->
                         LET dmg_hp == Max2(1, CeilDiv(damage_pool * limb.max_skin, layer.thickness))
                             curr == Max2(0, limb.curr_skin - dmg_hp)
                             wa == [w EXCEPT !.limbs[def][li].curr_skin = curr]
                         IN IF limb.curr_skin > 0 /\ curr = 0
                            THEN AddBleed(wa, def, li,
                                          RDiv(K1_EXTERNAL * damage_pool, layer.thickness), FALSE)
                            ELSE wa
                    [] layer.name = "muscle" ->
                         LET dmg_hp == Max2(1, CeilDiv(damage_pool * limb.max_muscle, layer.thickness))
                             curr == Max2(0, limb.curr_muscle - dmg_hp)
                             wa == [w EXCEPT !.limbs[def][li].curr_muscle = curr]
                         IN IF limb.curr_muscle > 0 /\ curr = 0
                            THEN AddBleed(wa, def, li,
                                          RDiv(K1_EXTERNAL * damage_pool, layer.thickness), FALSE)
                            ELSE wa
                    [] layer.name = "bone" ->
                         LET dmg_hp == Max2(1, CeilDiv(damage_pool * limb.max_bone, layer.thickness))
                         IN [w EXCEPT !.limbs[def][li].curr_bone = Max2(0, @ - dmg_hp)]
                    [] OTHER -> w
            IN ShearPipeline(w1, hit, remaining - damage_pool, k + 1)

\* lines 266-372: one impact
DamageHit(w, hit) ==
    IF w.raised # "none" THEN w
    ELSE IF hit.defender_id \notin DOMAIN w.limbs \/ hit.defender_id \notin DOMAIN w.organs
    THEN [w EXCEPT !.raised = "KeyError"]
    ELSE LET ke_total == RDiv(5 * hit.weapon_mass * RDiv(hit.relative_speed * hit.relative_speed, 1000), 1000)
             ke_crush == (ke_total * (10 - ShearCoeff10(hit.edge_type))) \div 10
             w1 == CrushPipeline(w, hit, ke_crush)
             p == penetration_fraction(hit.edge_type, hit.relative_speed)
         IN ShearPipeline(w1, hit, (p * TOTAL_STACK_CM) \div 100, 1)

RECURSIVE DamageHits(_, _)
DamageHits(w, evq) ==
    IF evq = <<>> THEN w ELSE DamageHits(DamageHit(w, Head(evq)), Tail(evq))

\* isinstance(e, health.ImpactEvent): the runtime-checkable protocol needs limb_idx
IsHealthImpact(e) == e.kind = "ImpactEvent" /\ e.limb_idx # NoField

\* World.consume_events restricted to the two uses of the health systems
DamageSystem(w) ==
    LET evq == SelectSeq(w.events, IsHealthImpact)
        rest == SelectSeq(w.events, LAMBDA e : ~IsHealthImpact(e))
    IN DamageHits([w EXCEPT !.events = rest], evq)

----------------------------------------------------------------------------
(* BleedSystem *)

RECURSIVE TotalRate(_)
TotalRate(srcs) ==
    IF srcs = <<>> THEN 0 ELSE Head(srcs).rate_ml_s + TotalRate(Tail(srcs))

\* a drain of total_rate per tick, whatever the tick duration
BleedDrainPerTick(total_rate, dt) == total_rate

\* total_rate * dt_s, in 0.001 ml
BleedDrain(total_rate, dt) == RDiv(total_rate * (dt \div 1000000), 1000)

\* a bleed step without the is_alive guard
BleedEntityNoGuard(w, eid, dt) ==
    LET vit == w.vitals[eid]
        total_rate == IF eid \in DOMAIN w.bleed_sources
                      THEN TotalRate(w.bleed_sources[eid]) ELSE 0
        blood == vit.blood_ml - BleedDrain(total_rate, dt)
        w1 == [w EXCEPT !.vitals[eid].blood_loss_rate_ml_s = total_rate,
                        !.vitals[eid].blood_ml = blood]
    IN IF blood <= 0
       THEN post_event([w1 EXCEPT !.vitals[eid].is_alive = FALSE],
                       DeathEvent(w.tick, eid, "exsanguination"))
       ELSE w1

\* lines 382-390: one iteration of the loop over world.vitals
BleedEntity(w, eid, dt) ==
    LET vit == w.vitals[eid]
    IN IF ~vit.is_alive THEN w
       ELSE LET total_rate == IF eid \in DOMAIN w.bleed_sources
                              THEN TotalRate(w.bleed_sources[eid]) ELSE 0
                blood == vit.blood_ml - BleedDrain(total_rate, dt)
                w1 == [w EXCEPT !.vitals[eid].blood_loss_rate_ml_s = total_rate,
                                !.vitals[eid].blood_ml = blood]
            IN IF blood <= 0
               THEN post_event([w1 EXCEPT !.vitals[eid].is_alive = FALSE],
                               DeathEvent(w.tick, eid, "exsanguination"))
               ELSE w1

RECURSIVE BleedEntities(_, _, _)
BleedEntities(w, eids, dt) ==
    IF eids = <<>> THEN w
    ELSE BleedEntities(BleedEntity(w, Head(eids), dt), Tail(eids), dt)

BleedSystem(w, dt) == BleedEntities(w, SortedSeq(DOMAIN w.vitals), dt)

----------------------------------------------------------------------------
(* fatigue_morale.py : components and tables *)

\* stamina is counted in units of 1/1820 point, so that the regeneration rates
\* (0.2 and 0.05 per tick) and the drains of ACTION_SPECS (1/13 and 1/7) are integers
StaminaUnit == 1820

\* Stamina: max_pts in points, curr_pts and regen_per_tick in stamina units
Stamina(max_pts, curr_pts, exhausted) ==
    [max_pts |-> max_pts, curr_pts |-> curr_pts,
     regen_per_tick |-> StaminaUnit \div 5, exhausted |-> exhausted]

\* MORALE_BANDS in dict order (high to low)
MORALE_BANDS == << <<"DETERMINED", 90>>, <<"COMPOSED", 65>>, <<"UNCERTAIN", 40>>,
                  <<"FRACTURED", 15>>, <<"DESPERATE", 0>> >>

Morale(value, state) == [value |-> value, state |-> state]

_MAX_NEG_SHOCK == 15
_BLOOD_WINDOW_TICKS == 200

\* action_registry.ACTIONS restricted to the stamina cost and the tick duration
\* (wind + hit + reco) of the first two rows of the attack table
ACTION_SPECS ==
    [a \in {"light_slash", "heavy_overhead"} |->
        IF a = "light_slash" THEN [stamina |-> 1, ticks |-> 5 + 3 + 5]
        ELSE [stamina |-> 4, ticks |-> 10 + 9 + 9]]

----------------------------------------------------------------------------
(* FatigueSystem.__call__ *)

\* a drain that posts an ExhaustionEvent whenever the stamina is at 0
FatigueDrainAlwaysPosts(w, ev) ==
    IF ev.entity_id \notin DOMAIN w.stamina \/ ev.action_id \notin DOMAIN ACTION_SPECS
    THEN [w EXCEPT !.raised = "KeyError"]
    ELSE LET eid == ev.entity_id
             spec == ACTION_SPECS[ev.action_id]
             drain == (spec.stamina * StaminaUnit) \div spec.ticks
             curr == Max2(0, w.stamina[eid].curr_pts - drain)
             w1 == [w EXCEPT !.stamina[eid].curr_pts = curr]
         IN IF curr <= 0
            THEN post_event([w1 EXCEPT !.stamina[eid].exhausted = TRUE],
                            ExhaustionEvent(w.tick, eid))
            ELSE w1

\* lines 116-124: one activity sample
FatigueDrain(w, ev) ==
    IF ev.entity_id \notin DOMAIN w.stamina \/ ev.action_id \notin DOMAIN ACTION_SPECS
    THEN [w EXCEPT !.raised = "KeyError"]
    ELSE LET eid == ev.entity_id
             spec == ACTION_SPECS[ev.action_id]
             drain == (spec.stamina * StaminaUnit) \div spec.ticks
             curr == Max2(0, w.stamina[eid].curr_pts - drain)
             w1 == [w EXCEPT !.stamina[eid].curr_pts = curr]
         IN IF ~w.stamina[eid].exhausted /\ curr <= 0
            THEN post_event([w1 EXCEPT !.stamina[eid].exhausted = TRUE],
                            ExhaustionEvent(w.tick, eid))
            ELSE w1

RECURSIVE FatigueEvents(_, _)
FatigueEvents(w, evs) ==
    IF evs = <<>> \/ w.raised # "none" THEN w
    ELSE FatigueEvents(FatigueDrain(w, Head(evs)), Tail(evs))

\* the samples are consumed first, the exhaustion events join what is left
FatigueSystem(w) ==
    FatigueEvents([w EXCEPT !.events = Rest(@, {"ActivitySampleEvent"})],
                  Matched(w.events, {"ActivitySampleEvent"}))

----------------------------------------------------------------------------
(* RecoverySystem.__call__ *)

\* world.peek_events of create_fatigue_morale_systems: it reads world._event_q
peek_events(w, kinds) == Matched(w._event_q, kinds)

\* lines 137-138: remember the tick of the samples peeked
RECURSIVE RecordActivity(_, _, _)
RecordActivity(seen, evs, tick) ==
    IF evs = <<>> THEN seen
    ELSE RecordActivity(
             [e \in DOMAIN seen \cup {Head(evs).entity_id} |->
                 IF e = Head(evs).entity_id THEN tick ELSE seen[e]],
             Tail(evs), tick)

\* lines 141-157: one entity of the stamina store
RecoverEntity(w, eid) ==
    IF eid \in DOMAIN w._activity_seen /\ w._activity_seen[eid] = w.tick THEN w
    ELSE IF eid \notin DOMAIN w.morale THEN [w EXCEPT !.raised = "KeyError"]
    ELSE IF w.stamina[eid].exhausted THEN w
    ELSE LET st == w.stamina[eid]
             regen == IF w.morale[eid].state = "DESPERATE"
                      THEN st.regen_per_tick \div 4 ELSE st.regen_per_tick
             curr == Min2(st.max_pts * StaminaUnit, st.curr_pts + regen)
         IN [w EXCEPT !.stamina[eid].curr_pts = curr,
                      !.stamina[eid].exhausted =
                          IF st.exhausted /\ 4 * curr >= st.max_pts * StaminaUnit
                          THEN FALSE ELSE st.exhausted]

RECURSIVE RecoverEntities(_, _)
RecoverEntities(w, eids) ==
    IF eids = <<>> \/ w.raised # "none" THEN w
    ELSE RecoverEntities(RecoverEntity(w, Head(eids)), Tail(eids))

RecoverySystem(w) ==
    RecoverEntities(
        [w EXCEPT !._activity_seen =
            RecordActivity(@, peek_events(w, {"ActivitySampleEvent"}), w.tick)],
        SortedSeq(DOMAIN w.stamina))

----------------------------------------------------------------------------
(* MoraleSystem.__call__ *)

\* a band lookup that compares with > instead of >=
RECURSIVE BandStrictlyAbove(_, _)
BandStrictlyAbove(val, i) ==
    IF i > Len(MORALE_BANDS) THEN "DESPERATE"
    ELSE IF val > MORALE_BANDS[i][2] THEN MORALE_BANDS[i][1]
    ELSE BandStrictlyAbove(val, i + 1)

\* lines 173-176: first band, from index i on, whose lower bound is <= val
RECURSIVE BandFrom(_, _)
BandFrom(val, i) ==
    IF i > Len(MORALE_BANDS) THEN "DESPERATE"
    ELSE IF val >= MORALE_BANDS[i][2] THEN MORALE_BANDS[i][1]
    ELSE BandFrom(val, i + 1)

_state_from_value(val) == BandFrom(val, 1)

\* delta[eid] += d on a defaultdict(float); delta is kept as a sequence of
\* <<eid, d>> pairs in insertion order
AddDelta(delta, eid, d) ==
    IF \E i \in 1..Len(delta) : delta[i][1] = eid
    THEN [i \in 1..Len(delta) |->
             IF delta[i][1] = eid THEN <<eid, delta[i][2] + d>> ELSE delta[i]]
    ELSE Append(delta, <<eid, d>>)

\* lines 183-185
RECURSIVE ImpactDeltas(_, _)
ImpactDeltas(delta, evs) ==
    IF evs = <<>> THEN delta
    ELSE ImpactDeltas(AddDelta(AddDelta(delta, Head(evs).entity_id, 5),
                               Head(evs).defender_id, -10),
                      Tail(evs))

\* lines 187-188 (d = -100) and 191-192 (d = -_MAX_NEG_SHOCK)
RECURSIVE EntityDeltas(_, _, _)
EntityDeltas(delta, evs, d) ==
    IF evs = <<>> THEN delta
    ELSE EntityDeltas(AddDelta(delta, Head(evs).entity_id, d), Tail(evs), d)

\* a surrender test that reports the cause the wrong way round
MoraleApplySwapsCause(w, eid, d_moral) ==
    IF eid \notin DOMAIN w.morale \/ eid \notin DOMAIN w.stamina
    THEN [w EXCEPT !.raised = "KeyError"]
    ELSE LET value == Max2(0, Min2(100, w.morale[eid].value + d_moral))
             state == _state_from_value(value)
             w1 == [w EXCEPT !.morale[eid] = Morale(value, state)]
         IN IF state = "DESPERATE"
               /\ (value - _MAX_NEG_SHOCK < 10 \/ w.stamina[eid].exhausted)
            THEN post_event(w1, SurrenderEvent(w.tick, eid,
                     IF w.stamina[eid].exhausted THEN "low_morale" ELSE "exhaustion"))
            ELSE w1

\* lines 204-215: apply one entry of delta
MoraleApply(w, eid, d_moral) ==
    IF eid \notin DOMAIN w.morale \/ eid \notin DOMAIN w.stamina
    THEN [w EXCEPT !.raised = "KeyError"]
    ELSE LET value == Max2(0, Min2(100, w.morale[eid].value + d_moral))
             state == _state_from_value(value)
             w1 == [w EXCEPT !.morale[eid] = Morale(value, state)]
         IN IF state = "DESPERATE"
               /\ (value - _MAX_NEG_SHOCK < 10 \/ w.stamina[eid].exhausted)
            THEN post_event(w1, SurrenderEvent(w.tick, eid,
                     IF w.stamina[eid].exhausted THEN "exhaustion" ELSE "low_morale"))
            ELSE w1

RECURSIVE MoraleApplyAll(_, _)
MoraleApplyAll(w, delta) ==
    IF delta = <<>> \/ w.raised # "none" THEN w
    ELSE MoraleApplyAll(MoraleApply(w, Head(delta)[1], Head(delta)[2]), Tail(delta))

\* lines 195-200: the blood-loss window counter of every entity with vitals,
\* then pct_lost reads the attribute max_blood_ml, which Vitals does not have
RECURSIVE BloodTicks(_, _)
BloodTicks(w, eids) ==
    IF eids = <<>> \/ w.raised # "none" THEN w
    ELSE LET eid == Head(eids)
             n == (IF eid \in DOMAIN w._blood_tick_counter
                   THEN w._blood_tick_counter[eid] ELSE 0) + 1
             full == n >= _BLOOD_WINDOW_TICKS
         IN BloodTicks(
                [w EXCEPT !._blood_tick_counter =
                              [e \in DOMAIN @ \cup {eid} |->
                                  IF e = eid THEN (IF full THEN 0 ELSE n) ELSE @[e]],
                          !.raised = "AttributeError"],
                Tail(eids))

\* (a) peeked impacts and deaths, (b) consumed exhaustion events, (c) the
\* blood-loss counters, then the application of delta
MoraleSystem(w) ==
    LET d1 == ImpactDeltas(<<>>, peek_events(w, {"ImpactEvent"}))
        d2 == EntityDeltas(d1, peek_events(w, {"DeathEvent"}), -100)
        d3 == EntityDeltas(d2, Matched(w.events, {"ExhaustionEvent"}), -_MAX_NEG_SHOCK)
        w1 == [w EXCEPT !.events = Rest(@, {"ExhaustionEvent"})]
    IN MoraleApplyAll(BloodTicks(w1, SortedSeq(DOMAIN w.vitals)), d3)

----------------------------------------------------------------------------
(* Worlds *)

EmptyStore == [e \in {} |-> 0]

\* World(rng=random.Random(seed)): every field at its dataclass default
NewWorld(seed) ==
    [tick |-> 0, events |-> <<>>, deferred |-> <<>>, _systems |-> <<>>,
     rng |-> seed, raised |-> "none",
     pos |-> EmptyStore, vel |-> EmptyStore, rad |-> EmptyStore,
     wep |-> EmptyStore, opp |-> EmptyStore, st |-> EmptyStore,
     limbs |-> EmptyStore, organs |-> EmptyStore, vitals |-> EmptyStore,
     bleed_sources |-> EmptyStore,
     combatants |-> <<>>, stamina |-> EmptyStore, morale |-> EmptyStore,
     _event_q |-> <<>>, _activity_seen |-> EmptyStore, _blood_tick_counter |-> EmptyStore,
     entities |-> [_next |-> 0],
     log |-> <<>>, hitlog |-> <<>>, sampled |-> {}, host_posts |-> 0,
     issued |-> <<>>, last_op |-> [op |-> "none", eid |-> NoField, ret |-> NoField],
     tested |-> <<>>]

\* attack._build_maul, reduced to the profile the auto intent uses (profiles[0])
MaulSegments == << [offset_m |-> 200, radius_m |-> 250, tag |-> "strong_edge"],
                   [offset_m |-> 950, radius_m |-> 200, tag |-> "weak_edge"],
                   [offset_m |-> 1200, radius_m |-> 50, tag |-> "point"] >>

Weapon(prof) ==
    [profiles |-> <<prof>>, hit_segments |-> MaulSegments, mass_kg |-> 5,
     edge_type |-> "blunt", max_offset |-> 1200]

AttackProfile(kind, wind, hit, reco) ==
    [action_id |-> "light_slash", kind |-> kind, windup_ticks |-> wind,
     active_ticks |-> hit, recovery_ticks |-> reco]

\* _JSON_ATTACKS[0]
LightSlash == AttackProfile("swing", 5, 3, 5)

Profiles ==
    {LightSlash} \cup
    {AttackProfile(k, w, a, r) : k \in {"swing", "thrust"},
                                 w \in 0..MaxPhaseTicks, a \in 0..MaxPhaseTicks,
                                 r \in 0..MaxPhaseTicks}

\* the spawn of test_two_dummies_register_hits (attack.py 346-355)
TwoDummies(w, prof) ==
    [w EXCEPT !.pos = [e \in Entities |-> [x |-> IF e = 0 THEN -200 ELSE 200, y |-> 0]],
              !.rad = [e \in Entities |-> 250],
              !.wep = [e \in Entities |-> Weapon(prof)],
              !.opp = [e \in Entities |-> 1 - e]]

Vitals(blood) == [blood_ml |-> blood, blood_loss_rate_ml_s |-> 0, is_alive |-> TRUE]

\* demo_damage._spawn_dummy for both entities
WithAnatomy(w, blood) ==
    [w EXCEPT !.limbs = [e \in Entities |-> DefaultLimbs],
              !.organs = [e \in Entities |-> DefaultOrgans],
              !.vitals = [e \in Entities |-> Vitals(blood)]]

----------------------------------------------------------------------------
(* FixedStepScheduler.run *)

ApplySystem(s, w, dt) ==
    CASE s = "move"  -> MovementSystem(w)
      [] s = "col"   -> CollisionSystem(w)
      [] s = "atk"   -> AttackSystem(w, dt)
      [] s = "dmg"   -> DamageSystem(w)
      [] s = "bleed" -> BleedSystem(w, dt)
      [] s = "fatigue" -> FatigueSystem(w)
      [] s = "recovery" -> RecoverySystem(w)
      [] s = "morale" -> MoraleSystem(w)

\* entry of run(num_ticks, world)
RunBegin(n) ==
    /\ pc \in {"idle", "returned"}
    /\ n <= budget
    /\ budget' = budget - n
    /\ run_n' = n
    /\ run_start' = world.tick
    /\ num_left' = n
    /\ pc' = IF n = 0 THEN "returned" ELSE "tick"
    /\ UNCHANGED <<passed, built, list_ops, systems, dt_ns, sys_idx, called, world>>

\* line 93: world.tick += 1
TickInc ==
    /\ pc = "tick"
    /\ world' = [world EXCEPT !.tick = @ + 1]
    /\ num_left' = num_left - 1
    /\ called' = <<>>
    /\ sys_idx' = 1
    /\ pc' = IF systems = <<>> THEN "flush" ELSE "sys"
    /\ UNCHANGED <<passed, built, list_ops, systems, dt_ns, run_n, run_start, budget>>

\* lines 94-95: sysc(world, dt)
CallSys ==
    /\ pc = "sys"
    /\ LET w1 == ApplySystem(systems[sys_idx], world, dt_ns)
       IN /\ world' = w1
          /\ pc' = IF w1.raised # "none" THEN "raised"
                   ELSE IF sys_idx = Len(systems) THEN "flush" ELSE "sys"
    /\ called' = Append(called, systems[sys_idx])
    /\ sys_idx' = sys_idx + 1
    /\ UNCHANGED <<passed, built, list_ops, systems, dt_ns, num_left, run_n, run_start,
                   budget>>

\* line 96: flush()
Flush ==
    /\ pc = "flush"
    /\ world' = flush(world)
    /\ pc' = IF num_left = 0 THEN "returned" ELSE "tick"
    /\ UNCHANGED <<passed, built, list_ops, systems, dt_ns, num_left, sys_idx, run_n,
                   run_start, called, budget>>

----------------------------------------------------------------------------
(* The caller edits the list it handed to the constructor *)

ListAppend(s) ==
    /\ list_ops < MaxListOps
    /\ passed' = Append(passed, s)
    /\ list_ops' = list_ops + 1
    /\ UNCHANGED <<built, systems, dt_ns, pc, num_left, sys_idx, run_n, run_start,
                   called, budget, world>>

ListRemove(i) ==
    /\ list_ops < MaxListOps
    /\ i \in 1..Len(passed)
    /\ passed' = SubSeq(passed, 1, i - 1) \o SubSeq(passed, i + 1, Len(passed))
    /\ list_ops' = list_ops + 1
    /\ UNCHANGED <<built, systems, dt_ns, pc, num_left, sys_idx, run_n, run_start,
                   called, budget, world>>

ListReverse ==
    /\ list_ops < MaxListOps
    /\ Len(passed) >= 2
    /\ passed' = [i \in 1..Len(passed) |-> passed[Len(passed) + 1 - i]]
    /\ list_ops' = list_ops + 1
    /\ UNCHANGED <<built, systems, dt_ns, pc, num_left, sys_idx, run_n, run_start,
                   called, budget, world>>

----------------------------------------------------------------------------
(* Specification of the scheduler: any short system list, caller edits *)

SystemLists ==
    {l \in UNION {[1..n -> AllSystems] : n \in 0..MaxSystems} :
        \A i, j \in 1..Len(l) : i # j => l[i] # l[j]}

DtChoices == {DEFAULT_DT_NS, 50000000}

SchedInit(list, dt, w, ticks) ==
    /\ passed = list
    /\ built = list
    /\ list_ops = 0
    /\ systems = SortedByPriority(list)
    /\ dt_ns = dt
    /\ pc = "idle"
    /\ num_left = 0
    /\ sys_idx = 1
    /\ run_n = 0
    /\ run_start = 0
    /\ called = <<>>
    /\ budget = ticks
    /\ world = w

Init ==
    \E list \in SystemLists, dt \in DtChoices :
        SchedInit(list, dt,
                  [WithAnatomy(TwoDummies(NewWorld(0), LightSlash), 5000000)
                      EXCEPT !.vel = [e \in {0} |-> [vx |-> 100, vy |-> 0]]],
                  SchedTicks)

Next ==
    \/ \E n \in 0..MaxRun : RunBegin(n)
    \/ TickInc
    \/ CallSys
    \/ Flush
    \/ \E s \in AllSystems : ListAppend(s)
    \/ \E i \in 1..(MaxSystems + MaxListOps) : ListRemove(i)
    \/ ListReverse

Spec == Init /\ [][Next]_vars

----------------------------------------------------------------------------
(* Specification of the attack test: [move, col, atk], every small profile *)

\* centre distances of the two fighters: the test's 0.4 m, and 1.4 m, where only
\* the outer capsules of the maul reach the opponent
Gaps == {400, 1400}

Spread(w, gap) ==
    [w EXCEPT !.pos = [e \in Entities |->
                          [x |-> IF e = 0 THEN -(gap \div 2) ELSE gap \div 2, y |-> 0]]]

InitAttack ==
    \E prof \in Profiles, gap \in Gaps :
        SchedInit(<<"move", "col", "atk">>, DEFAULT_DT_NS,
                  Spread(TwoDummies(NewWorld(2), prof), gap), AttackTicks)

NextAttack ==
    \/ \E n \in 0..MaxRun : RunBegin(n)
    \/ TickInc
    \/ CallSys
    \/ Flush

SpecAttack == InitAttack /\ [][NextAttack]_vars

----------------------------------------------------------------------------
(* World.step with the systems of register_health_systems; the host posts
   impacts between steps, as demo_damage does *)

RECURSIVE RunSystems(_, _, _)
RunSystems(w, syss, dt) ==
    IF syss = <<>> \/ w.raised # "none" THEN w
    ELSE RunSystems(ApplySystem(Head(syss), w, dt), Tail(syss), dt)

\* World.step
step(w, dt) ==
    LET w1 == RunSystems([w EXCEPT !.tick = @ + 1], w._systems, dt)
    IN IF w1.raised # "none" THEN w1 ELSE flush(w1)

\* register_health_systems
register_health_systems(w) == [w EXCEPT !._systems = @ \o <<"dmg", "bleed">>]

Step ==
    /\ budget > 0
    /\ world.raised = "none"
    /\ world' = step(world, DEFAULT_DT_NS)
    /\ budget' = budget - 1
    /\ UNCHANGED schedVars

\* (speed in mm/s, edge type) of the impacts the host posts
ImpactKinds ==
    { <<1000, "blunt">>, <<7000, "blunt">>, <<8000, "blunt">>, <<7000, "slash">>,
      <<9000, "pierce">> }
ImpactLimbs == {1, 2}            \* head, neck (1-based index into REGIONS)

ImpactsPosted(w) == Len(SelectSeq(w.log, LAMBDA e : e.kind = "ImpactEvent"))

HostImpact(k, limb) ==
    /\ world.raised = "none"
    /\ budget > 0
    /\ ImpactsPosted(world) < MaxImpacts
    /\ world' = post_event(world, HealthImpactEvent(world.tick, 0, 1, k[1], 3, k[2], limb))
    /\ UNCHANGED <<schedVars, budget>>

Seeds == {0, 7}
\* blood pools at the start: the default 5 000 ml and two pools late in a bleed-out
InitialBlood == {5000000, 6400, 1000}

InitHealth ==
    \E seed \in Seeds, blood \in InitialBlood :
        SchedInit(<<>>, DEFAULT_DT_NS,
                  register_health_systems(WithAnatomy(NewWorld(seed), blood)),
                  HealthTicks)

NextHealth ==
    \/ Step
    \/ \E k \in ImpactKinds, limb \in ImpactLimbs : HostImpact(k, limb)

SpecHealth == InitHealth /\ [][NextHealth]_vars

----------------------------------------------------------------------------
(* Specification of the movement / collision wiring of test_orbit_no_overlap:
   [move, col] over two 0.5 m fighters, from several starting placements *)

\* movement_collision._spawn_orbiters, with the placement as a parameter
SpawnPair(w, p0, p1, v0, v1) ==
    [w EXCEPT !.pos = [e \in Entities |-> IF e = 0 THEN p0 ELSE p1],
              !.vel = [e \in Entities |-> IF e = 0 THEN v0 ELSE v1],
              !.rad = [e \in Entities |-> 500]]

\* starting placements <<p0, p1>>: apart, touching, overlapping, exactly
\* coincident, and overlapping at the arena rim
Placements ==
    { << [x |-> -2000, y |-> 0], [x |-> 2000, y |-> 0] >>,
      << [x |-> 0, y |-> 0], [x |-> 1000, y |-> 0] >>,
      << [x |-> 0, y |-> 0], [x |-> 600, y |-> 400] >>,
      << [x |-> 0, y |-> 0], [x |-> 0, y |-> 0] >>,
      << [x |-> 700, y |-> -300], [x |-> 700, y |-> -300] >>,
      << [x |-> 19400, y |-> -300], [x |-> 19400, y |-> 300] >> }

\* velocities in mm/s
Velocities == { [vx |-> 0, vy |-> 0], [vx |-> 5000, vy |-> 0], [vx |-> -5000, vy |-> 2500] }

InitCollision ==
    \E pl \in Placements, v0 \in Velocities, v1 \in Velocities :
        SchedInit(<<"move", "col">>, DEFAULT_DT_NS,
                  SpawnPair(NewWorld(123), pl[1], pl[2], v0, v1), CollisionTicks)

NextCollision ==
    \/ \E n \in 0..MaxRun : RunBegin(n)
    \/ TickInc
    \/ CallSys
    \/ Flush

SpecCollision == InitCollision /\ [][NextCollision]_vars

----------------------------------------------------------------------------
(* Specification of MovementSystem alone under schedulers of either tick
   duration; entity 1 may have no velocity *)

MoveTicks == 3

\* the stores of _spawn_orbiters, entity 1 with or without a Velocity2D
SpawnMovers(w, v0, v1, both) ==
    [w EXCEPT !.pos = [e \in Entities |-> [x |-> IF e = 0 THEN -2000 ELSE 2000, y |-> 0]],
              !.vel = [e \in (IF both THEN Entities ELSE {0}) |-> IF e = 0 THEN v0 ELSE v1],
              !.rad = [e \in Entities |-> 500]]

InitMovement ==
    \E dt \in DtChoices, v0 \in Velocities, v1 \in Velocities, both \in BOOLEAN :
        SchedInit(<<"move">>, dt, SpawnMovers(NewWorld(123), v0, v1, both), MoveTicks)

NextMovement ==
    \/ \E n \in 0..MaxRun : RunBegin(n)
    \/ TickInc
    \/ CallSys
    \/ Flush

SpecMovement == InitMovement /\ [][NextMovement]_vars

----------------------------------------------------------------------------

(* fatigue_morale.py : wiring and bout driver *)

\* arena_blueprints.spawn_fighters_pair
spawn_fighters_pair(w) ==
    [w EXCEPT !.pos = [e \in Entities |-> [x |-> IF e = 0 THEN -150 ELSE 150, y |-> 0]],
              !.rad = [e \in Entities |-> 300],
              !.wep = [e \in Entities |-> Weapon(LightSlash)],
              !.opp = [e \in Entities |-> 1 - e],
              !._systems = IF \E i \in 1..Len(@) : @[i] = "atk" THEN @ ELSE Append(@, "atk"),
              !.combatants = @ \o <<0, 1>>]

\* create_fatigue_morale_systems: the event queue of peek_events starts empty
\* and nothing appends to it, since World already has post_event
create_fatigue_morale_systems(w) ==
    [w EXCEPT !._event_q = <<>>,
              !._systems = (IF \E i \in 1..Len(@) : @[i] = "atk" THEN @ ELSE Append(@, "atk"))
                           \o <<"fatigue", "recovery", "morale">>,
              !.tick = 0,
              !.stamina = [e \in {w.combatants[i] : i \in 1..Len(w.combatants)} |->
                              Stamina(100, 100 * StaminaUnit, FALSE)],
              !.morale = [e \in {w.combatants[i] : i \in 1..Len(w.combatants)} |->
                              Morale(100, "DETERMINED")]]

\* _build_world: the final fallback adds nothing after spawn_fighters_pair
_build_world(seed) == create_fatigue_morale_systems(spawn_fighters_pair(NewWorld(seed)))

\* world.tick_once: every system in list order, then the tick counter; no flush
tick_once(w) ==
    LET w1 == RunSystems(w, w._systems, 20000000)
    IN IF w1.raised # "none" THEN w1 ELSE [w1 EXCEPT !.tick = @ + 1]

\* _terminal_events_for: World has no DeathEvent attribute
TerminalKinds == {"SurrenderEvent"}

\* one iteration of the loop of _simulate_bout
BoutTick ==
    /\ pc = "bout"
    /\ num_left > 0
    /\ LET w1 == tick_once(world)
           term == Matched(w1.events, TerminalKinds)
       IN /\ world' = IF w1.raised = "none"
                      THEN [w1 EXCEPT !.events = Rest(@, TerminalKinds)] ELSE w1
          /\ pc' = IF w1.raised # "none" THEN "raised"
                   ELSE IF term # <<>> THEN "bout_returned"
                   ELSE IF num_left = 1 THEN "bout_timeout"
                   ELSE "bout"
    /\ num_left' = num_left - 1
    /\ UNCHANGED <<passed, built, list_ops, systems, dt_ns, sys_idx, run_n, run_start,
                   called, budget>>

InitBout ==
    /\ \E seed \in Seeds : world = _build_world(seed)
    /\ pc = "bout"
    /\ num_left = BoutTicks
    /\ run_n = BoutTicks
    /\ passed = <<>> /\ built = <<>> /\ list_ops = 0 /\ systems = <<>>
    /\ dt_ns = 20000000 /\ sys_idx = 1 /\ run_start = 0 /\ called = <<>> /\ budget = 0

NextBout == BoutTick

\* the loop of _simulate_bout keeps iterating while its budget lasts
BoutProgress == pc = "bout" /\ num_left > 0 /\ num_left' = num_left - 1

SpecBout == InitBout /\ [][NextBout]_vars /\ WF_num_left(BoutProgress)

\* the recovery scenario: two unarmed combatants wired by
\* create_fatigue_morale_systems, entity 0 at 0 stamina with the exhausted flag
\* either way, and nobody posting an event
IdleWorld(max_pts, exhausted) ==
    LET w == create_fatigue_morale_systems([NewWorld(0) EXCEPT !.combatants = <<0, 1>>])
    IN [w EXCEPT !.stamina[0] = Stamina(max_pts, 0, exhausted)]

MaxPtsChoices == {40, 100}

RecoveryTick ==
    /\ pc = "idle"
    /\ budget > 0
    /\ world.raised = "none"
    /\ world' = tick_once(world)
    /\ budget' = budget - 1
    /\ UNCHANGED schedVars

InitRecovery ==
    \E max_pts \in MaxPtsChoices, exhausted \in BOOLEAN :
        SchedInit(<<>>, 20000000, IdleWorld(max_pts, exhausted), RecoveryTicks)

NextRecovery == RecoveryTick

\* the scenario keeps calling tick_once while its budget lasts
RecoveryProgress ==
    pc = "idle" /\ budget > 0 /\ world.raised = "none" /\ budget' = budget - 1

SpecRecovery == InitRecovery /\ [][NextRecovery]_vars /\ WF_budget(RecoveryProgress)

\* the fatigue and morale specification: the world of _build_world, stepped one
\* system at a time as tick_once does, with a host that posts events between ticks
FmCallSys ==
    /\ pc = "fm"
    /\ budget > 0
    /\ world.raised = "none"
    /\ sys_idx <= Len(world._systems)
    /\ world' = ApplySystem(world._systems[sys_idx], world, 20000000)
    /\ sys_idx' = sys_idx + 1
    /\ UNCHANGED <<passed, built, list_ops, systems, dt_ns, pc, num_left, run_n, run_start,
                   called, budget>>

\* world.tick += 1 at the end of tick_once
FmTickInc ==
    /\ pc = "fm"
    /\ world.raised = "none"
    /\ sys_idx = Len(world._systems) + 1
    /\ world' = [world EXCEPT !.tick = @ + 1]
    /\ sys_idx' = 1
    /\ budget' = budget - 1
    /\ UNCHANGED <<passed, built, list_ops, systems, dt_ns, pc, num_left, run_n, run_start,
                   called>>

\* world.post_event called by the host between two ticks
HostPost(evt) ==
    /\ pc = "fm"
    /\ budget > 0
    /\ sys_idx = 1
    /\ world.raised = "none"
    /\ world.host_posts < MaxHostPosts
    /\ world' = post_event([world EXCEPT !.host_posts = @ + 1], evt)
    /\ UNCHANGED <<schedVars, budget>>

\* stamina at the start: full, or 200 units (about 0.11 point) late in a fight
StaminaStarts == {100 * StaminaUnit, 200}
\* morale at the start: the default, or 30 or 20 (FRACTURED) late in a fight
MoraleStarts == {Morale(100, "DETERMINED"), Morale(30, "FRACTURED"), Morale(20, "FRACTURED")}

InitFatigue ==
    \E s0 \in StaminaStarts, m0 \in MoraleStarts :
        /\ world = [_build_world(0) EXCEPT
                       !.stamina = [e \in DOMAIN @ |-> Stamina(100, s0, FALSE)],
                       !.morale = [e \in DOMAIN @ |-> m0]]
        /\ pc = "fm"
        /\ budget = FatigueTicks
        /\ sys_idx = 1
        /\ passed = <<>> /\ built = <<>> /\ list_ops = 0 /\ systems = <<>>
        /\ dt_ns = 20000000 /\ num_left = 0 /\ run_n = 0 /\ run_start = 0 /\ called = <<>>

NextFatigue ==
    \/ FmCallSys
    \/ FmTickInc
    \/ \E e \in Entities, a \in DOMAIN ACTION_SPECS :
           HostPost(ActivitySampleEvent(world.tick, e, a, 0))
    \/ \E e \in Entities : HostPost(ExhaustionEvent(world.tick, e))
    \/ HostPost(DeathEvent(world.tick, 1, "organ_failure"))

SpecFatigue == InitFatigue /\ [][NextFatigue]_vars

\* the system that the next FmCallSys step calls
NextSystem ==
    IF pc = "fm" /\ sys_idx <= Len(world._systems) THEN world._systems[sys_idx] ELSE "none"

\* the system that the last FmCallSys step called
LastSystem ==
    IF pc = "fm" /\ sys_idx > 1 THEN world._systems[sys_idx - 1] ELSE "none"

\* attack and health systems on one world, driven by World.step: the fighters
\* of spawn_fighters_pair with the default anatomy
InitDelivery ==
    \E seed \in Seeds :
        SchedInit(<<>>, DEFAULT_DT_NS,
                  register_health_systems(
                      WithAnatomy(spawn_fighters_pair(NewWorld(seed)), 5000000)),
                  DeliveryTicks)

NextDelivery == Step

SpecDelivery == InitDelivery /\ [][NextDelivery]_vars

----------------------------------------------------------------------------
(* ecs/entity.py and ecs/components.py *)

\* EntityIDGenerator.next_id: the id returned and the generator afterwards
next_id(gen) == [ret |-> gen._next, gen |-> [gen EXCEPT !._next = @ + 1]]

\* EntityIDGenerator.reset
reset(gen) == [gen EXCEPT !._next = 0]

\* an add that keeps a component already stored (dict.setdefault)
StoreAddKeepsExisting(store, eid, comp) ==
    [e \in DOMAIN store \cup {eid} |-> IF e \in DOMAIN store THEN store[e] ELSE comp]

\* ComponentStore.add: self._data[eid] = comp
StoreAdd(store, eid, comp) ==
    [e \in DOMAIN store \cup {eid} |-> IF e = eid THEN comp ELSE store[e]]

\* ComponentStore.get: self._data.get(eid), None being NoField
StoreGet(store, eid) == IF eid \in DOMAIN store THEN store[eid] ELSE NoField

\* ComponentStore.remove: self._data.pop(eid, None)
StoreRemove(store, eid) == [e \in DOMAIN store \ {eid} |-> store[e]]

\* the host calls world.entities.next_id(); `issued` is the history of the ids
NextIdOp ==
    /\ budget > 0
    /\ world' = [world EXCEPT !.entities = next_id(@).gen,
                              !.issued = Append(@, next_id(world.entities).ret),
                              !.last_op = [op |-> "next_id", eid |-> NoField,
                                           ret |-> next_id(world.entities).ret]]
    /\ budget' = budget - 1
    /\ UNCHANGED schedVars

ResetOp ==
    /\ budget > 0
    /\ world' = [world EXCEPT !.entities = reset(@),
                              !.last_op = [op |-> "reset", eid |-> NoField, ret |-> NoField]]
    /\ budget' = budget - 1
    /\ UNCHANGED schedVars

\* the host works on the CollisionRadius store; `last_op` remembers the call
StoreAddOp(eid, comp) ==
    /\ budget > 0
    /\ world' = [world EXCEPT !.rad = StoreAdd(@, eid, comp),
                              !.last_op = [op |-> "add", eid |-> eid, ret |-> comp]]
    /\ budget' = budget - 1
    /\ UNCHANGED schedVars

StoreGetOp(eid) ==
    /\ budget > 0
    /\ world' = [world EXCEPT !.last_op = [op |-> "get", eid |-> eid,
                                           ret |-> StoreGet(world.rad, eid)]]
    /\ budget' = budget - 1
    /\ UNCHANGED schedVars

StoreRemoveOp(eid) ==
    /\ budget > 0
    /\ world' = [world EXCEPT !.rad = StoreRemove(@, eid),
                              !.last_op = [op |-> "remove", eid |-> eid, ret |-> NoField]]
    /\ budget' = budget - 1
    /\ UNCHANGED schedVars

StoreIds == {0, 1}
StoreComps == {250, 300}

InitEcs == SchedInit(<<>>, DEFAULT_DT_NS, NewWorld(0), MaxEcsOps)

NextEcs ==
    \/ NextIdOp
    \/ ResetOp
    \/ \E eid \in StoreIds, comp \in StoreComps : StoreAddOp(eid, comp)
    \/ \E eid \in StoreIds : StoreGetOp(eid)
    \/ \E eid \in StoreIds : StoreRemoveOp(eid)

SpecEcs == InitEcs /\ [][NextEcs]_vars

----------------------------------------------------------------------------
(* action_registry.effective_ticks *)

\* RAW["encumbrance_mult"] in hundredths: the balance table is external data,
\* two classes of each kind stand for it
ENC_MULT ==
    [armor  |-> [cloth |-> 100, plate |-> 130],
     weapon |-> [light |-> 100, heavy |-> 120]]

\* _load_group("attacks", Phase.ATTACK): every row of the attack table is
\* tagged with the phase ATTACK
SpecPhase(action_id) == "ATTACK"

RECURSIVE Gcd(_, _)
Gcd(a, b) == IF b = 0 THEN a ELSE Gcd(b, a % b)

\* t *= n / d on a duration kept as the exact fraction t.n / t.d
Times(t, n, d) ==
    LET g == Gcd(Abs(t.n * n), t.d * d)
    IN [n |-> (t.n * n) \div g, d |-> (t.d * d) \div g]

\* lines 163-188; phase "None" is the default argument, the multipliers are
\* applied in the order of the code and the result is max(1, round(t))
effective_ticks(action_id, armor_class, weapon_class, stamina_curr, stamina_exhaust, coord, percep, phase) ==
    IF \/ action_id \notin DOMAIN ACTION_SPECS
       \/ armor_class \notin DOMAIN ENC_MULT.armor
       \/ weapon_class \notin DOMAIN ENC_MULT.weapon
    THEN [ret |-> 0, raised |-> "KeyError"]
    ELSE LET ph == IF phase = "None" THEN SpecPhase(action_id) ELSE phase
             t0 == [n |-> ACTION_SPECS[action_id].ticks, d |-> 1]
             t1 == Times(t0, ENC_MULT.armor[armor_class], 100)
             t2 == Times(t1, ENC_MULT.weapon[weapon_class], 100)
             t3 == Times(t2, 100 - coord, 100)
             t4 == IF ph = "DEFEND" THEN Times(t3, 1000 - 7 * percep, 1000) ELSE t3
             t5 == IF stamina_curr <= stamina_exhaust THEN Times(t4, 115, 100) ELSE t4
             r == RoundHalfEven(t5.n, t5.d)
         IN [ret |-> IF r > 1 THEN r ELSE 1, raised |-> "none"]

\* one call of effective_ticks; the world records its arguments and its result
EffectiveTicksCall ==
    /\ pc = "registry"
    /\ \E a \in DOMAIN ACTION_SPECS \cup {"unknown_action"},
          ac \in DOMAIN ENC_MULT.armor \cup {"unknown_armor"},
          wc \in DOMAIN ENC_MULT.weapon \cup {"unknown_weapon"},
          sc \in {0, 10, 50}, se \in {10},
          co \in {0, 10, 20, 50, 120}, pe \in {0, 10, 20},
          ph \in {"None", "MOVE", "DEFEND"} :
          LET res == effective_ticks(a, ac, wc, sc, se, co, pe, ph)
          IN world' = [called |-> TRUE, action_id |-> a, armor_class |-> ac,
                       weapon_class |-> wc, stamina_curr |-> sc,
                       stamina_exhaust |-> se, coord |-> co, percep |-> pe,
                       phase |-> ph, ret |-> res.ret, raised |-> res.raised]
    /\ pc' = "registry_returned"
    /\ UNCHANGED <<passed, built, list_ops, systems, dt_ns, num_left, sys_idx,
                   run_n, run_start, called, budget>>

InitTicks ==
    /\ world = [called |-> FALSE, action_id |-> "", armor_class |-> "",
                weapon_class |-> "", stamina_curr |-> 0, stamina_exhaust |-> 0,
                coord |-> 0, percep |-> 0, phase |-> "None", ret |-> 0,
                raised |-> "none"]
    /\ pc = "registry"
    /\ budget = 0 /\ sys_idx = 1
    /\ passed = <<>> /\ built = <<>> /\ list_ops = 0 /\ systems = <<>>
    /\ dt_ns = 20000000 /\ num_left = 0 /\ run_n = 0 /\ run_start = 0 /\ called = <<>>

NextTicks == EffectiveTicksCall

SpecTicks == InitTicks /\ [][NextTicks]_vars

----------------------------------------------------------------------------

(* partially attached components *)

\* the components an entity may still lack
PartialKinds == {"opponent", "stamina", "morale", "limbs", "radius"}

\* the fighters of _build_world with limbs and organs, the health systems and
\* a CollisionSystem added, entity 1 lacking one component
PartialWorld(kind) ==
    LET w == register_health_systems(
                 [_build_world(0) EXCEPT !.limbs = [e \in Entities |-> DefaultLimbs],
                                         !.organs = [e \in Entities |-> DefaultOrgans]])
        w1 == [w EXCEPT !._systems = Append(@, "col")]
    IN CASE kind = "opponent" -> [w1 EXCEPT !.opp = StoreRemove(@, 1)]
         [] kind = "stamina"  -> [w1 EXCEPT !.stamina = StoreRemove(@, 1)]
         [] kind = "morale"   -> [w1 EXCEPT !.morale = StoreRemove(@, 1)]
         [] kind = "limbs"    -> [w1 EXCEPT !.limbs = StoreRemove(@, 1)]
         [] kind = "radius"   -> [w1 EXCEPT !.rad = StoreRemove(@, 1)]

InitPartial ==
    \E kind \in PartialKinds :
        /\ world = PartialWorld(kind)
        /\ pc = "fm"
        /\ budget = FatigueTicks
        /\ sys_idx = 1
        /\ passed = <<>> /\ built = <<>> /\ list_ops = 0 /\ systems = <<>>
        /\ dt_ns = 20000000 /\ num_left = 0 /\ run_n = 0 /\ run_start = 0 /\ called = <<>>

NextPartial ==
    \/ FmCallSys
    \/ FmTickInc
    \/ \E a \in DOMAIN ACTION_SPECS : HostPost(ActivitySampleEvent(world.tick, 1, a, 0))
    \/ HostPost(HealthImpactEvent(world.tick, 0, 1, 7000, 3, "blunt", 1))

SpecPartial == InitPartial /\ [][NextPartial]_vars

----------------------------------------------------------------------------
(* The fatigue and morale systems over fighters that carry Vitals *)

\* blood volumes at the start (0.001 ml): full, 1 % lost, 50 % lost
BloodStarts == {5000000, 4950000, 2500000}

InitBlood ==
    \E m0 \in MoraleStarts, with_vitals \in BOOLEAN, b0 \in BloodStarts, b1 \in BloodStarts :
        /\ world = [_build_world(0) EXCEPT
                       !.morale = [e \in DOMAIN @ |-> m0],
                       !.vitals = IF with_vitals
                                  THEN [e \in Entities |-> Vitals(IF e = 0 THEN b0 ELSE b1)]
                                  ELSE @]
        /\ pc = "fm"
        /\ budget = FatigueTicks
        /\ sys_idx = 1
        /\ passed = <<>> /\ built = <<>> /\ list_ops = 0 /\ systems = <<>>
        /\ dt_ns = 20000000 /\ num_left = 0 /\ run_n = 0 /\ run_start = 0 /\ called = <<>>

NextBlood ==
    \/ FmCallSys
    \/ FmTickInc
    \/ \E e \in Entities : HostPost(ExhaustionEvent(world.tick, e))

SpecBlood == InitBlood /\ [][NextBlood]_vars

----------------------------------------------------------------------------

(* World.post_event and World.consume_events called by a host on one queue *)

MaxQueueOps == 4

\* a consume that returns the matches and leaves the queue as it was
consume_events_peeks(w, kind) ==
    [matched |-> Matched(w.events, {kind}), w |-> w]

\* World.consume_events(cls): the list returned and the world afterwards
consume_events(w, kind) ==
    [matched |-> Matched(w.events, {kind}),
     w |-> [w EXCEPT !.events = Rest(@, {kind})]]

\* the events the host posts
QueueEvents ==
    {HealthImpactEvent(0, 0, 1, 7000, 3, "blunt", 1), DeathEvent(0, 1, "organ_failure")}
    \cup {ActivitySampleEvent(0, e, "walk_step", 0) : e \in Entities}
    \cup {ExhaustionEvent(0, e) : e \in Entities}

ConsumedKinds == {"ImpactEvent", "ActivitySampleEvent", "ExhaustionEvent"}

QueuePost(evt) ==
    /\ pc = "queue"
    /\ budget > 0
    /\ world' = [post_event(world, evt) EXCEPT
                    !.last_op = [op |-> "post_event", eid |-> NoField, ret |-> NoField]]
    /\ budget' = budget - 1
    /\ UNCHANGED schedVars

QueueConsume(kind) ==
    /\ pc = "queue"
    /\ budget > 0
    /\ LET r == consume_events(world, kind)
       IN world' = [r.w EXCEPT !.last_op = [op |-> "consume_events", eid |-> NoField,
                                            ret |-> [cls |-> kind, matched |-> r.matched]]]
    /\ budget' = budget - 1
    /\ UNCHANGED schedVars

InitQueue ==
    /\ world = NewWorld(0)
    /\ pc = "queue"
    /\ budget = MaxQueueOps
    /\ sys_idx = 1
    /\ passed = <<>> /\ built = <<>> /\ list_ops = 0 /\ systems = <<>>
    /\ dt_ns = DEFAULT_DT_NS /\ num_left = 0 /\ run_n = 0 /\ run_start = 0 /\ called = <<>>

NextQueue ==
    \/ \E evt \in QueueEvents : QueuePost(evt)
    \/ \E kind \in ConsumedKinds : QueueConsume(kind)

SpecQueue == InitQueue /\ [][NextQueue]_vars

----------------------------------------------------------------------------

(* economy-sim/market.py : MarketWarehouse over one item and two owners.
   Quantities are whole units, silver whole coins; the tolerance 1e-6 of the
   code is the test against 0 *)

MaxMarketOps == 5
MaxDay == 1

Owners == {"A", "B"}

\* dict.get(owner, 0.0), item assignment and del on owner_map[item] / for_sale_map[item]
Held(m, o) == IF o \in DOMAIN m THEN m[o] ELSE 0
Put(m, o, v) == [k \in DOMAIN m \cup {o} |-> IF k = o THEN v ELSE m[k]]
Del(m, o) == [k \in DOMAIN m \ {o} |-> m[k]]

\* MarketWarehouse.__init__, with the purses of the owners
NewMarket(purse) ==
    [owner_map |-> EmptyStore, for_sale_map |-> EmptyStore,
     bids |-> <<>>, asks |-> <<>>, next_order_id |-> 1, trade_id_counter |-> 1,
     trades |-> <<>>, silver |-> [o \in Owners |-> purse], day |-> 0,
     last_op |-> "none"]

\* MarketOrder.__init__; timestamps grow with the order of placement
MarketOrder(owner, quantity, price, is_bid, id, current_day, valid_days) ==
    [owner |-> owner, quantity |-> quantity, price |-> price, is_bid |-> is_bid,
     timestamp |-> id, order_id |-> id, posted_day |-> current_day,
     valid_until_day |-> current_day + valid_days]

\* the sort keys: (-price, timestamp) for bids, (price, timestamp) for asks
OrderBefore(a, b) ==
    \/ (IF a.is_bid THEN a.price > b.price ELSE a.price < b.price)
    \/ (a.price = b.price /\ a.timestamp < b.timestamp)

\* append and list.sort with the key: a stable insertion into the sorted book
RECURSIVE InsertOrder(_, _)
InsertOrder(sorted, o) ==
    IF sorted = <<>> THEN <<o>>
    ELSE IF OrderBefore(o, Head(sorted)) THEN <<o>> \o sorted
    ELSE <<Head(sorted)>> \o InsertOrder(Tail(sorted), o)

\* deposit
deposit(m, owner, quantity, for_sale) ==
    IF quantity <= 0 THEN m
    ELSE [m EXCEPT !.owner_map = Put(@, owner, Held(@, owner) + quantity),
                   !.for_sale_map = IF for_sale
                                    THEN Put(@, owner, Held(@, owner) + quantity)
                                    ELSE @]

\* _decrease_for_sale
_decrease_for_sale(m, seller, qty_sold) ==
    LET fs == Held(m.for_sale_map, seller)
    IN IF fs = 0 THEN m
       ELSE IF fs - qty_sold <= 0
       THEN [m EXCEPT !.for_sale_map = Del(@, seller)]
       ELSE [m EXCEPT !.for_sale_map = Put(@, seller, fs - qty_sold)]

\* withdraw: the open asks of the owner stay in the book
withdraw(m, owner, qty) ==
    IF qty <= 0 THEN m
    ELSE LET have == Held(m.owner_map, owner)
             take == Min2(qty, have)
         IN IF take = 0 THEN m
            ELSE _decrease_for_sale(
                     [m EXCEPT !.owner_map = IF have - take <= 0
                                             THEN Del(@, owner)
                                             ELSE Put(@, owner, have - take)],
                     owner, take)

\* place_bid
place_bid(m, owner, quantity, bid_price, current_day, valid_days) ==
    IF quantity <= 0 THEN m
    ELSE LET o == MarketOrder(owner, quantity, bid_price, TRUE, m.next_order_id,
                              current_day, valid_days)
         IN [m EXCEPT !.next_order_id = @ + 1,
                      !.bids = InsertOrder(@, o)]

\* place_ask: the quantity is capped by what the owner holds, whatever part of
\* it earlier asks already offer
place_ask(m, owner, quantity, ask_price, current_day, valid_days) ==
    LET q == Min2(quantity, Held(m.owner_map, owner))
    IN IF q <= 0 THEN m
       ELSE LET o == MarketOrder(owner, q, ask_price, FALSE, m.next_order_id,
                                 current_day, valid_days)
            IN [m EXCEPT !.next_order_id = @ + 1,
                         !.asks = InsertOrder(@, o),
                         !.for_sale_map = Put(@, owner, Held(@, owner) + q)]

\* entities.Person.pay_in_silver of an owner without gold: what is paid
pay_in_silver(silver, amount) ==
    IF amount <= 0 THEN 0 ELSE IF silver >= amount THEN amount ELSE silver

\* _fill_order: the seller's entry goes down by qty (a missing entry counts as
\* 0.0 in the defaultdict) and is deleted at 0 or below, the buyer's goes up by qty
_fill_order(m, i, j, qty, price, cost, sim_day) ==
    LET bid == m.bids[i]
        ask == m.asks[j]
        m1 == [m EXCEPT !.silver[ask.owner] = @ + cost]
        m2 == [m1 EXCEPT !.owner_map = IF Held(@, ask.owner) - qty <= 0
                                       THEN Del(@, ask.owner)
                                       ELSE Put(@, ask.owner, Held(@, ask.owner) - qty)]
        m3 == [m2 EXCEPT !.owner_map = Put(@, bid.owner, Held(@, bid.owner) + qty)]
        m4 == _decrease_for_sale(m3, ask.owner, qty)
    IN [m4 EXCEPT !.asks[j].quantity = @ - qty,
                  !.bids[i].quantity = @ - qty,
                  !.trade_id_counter = @ + 1,
                  !.trades = Append(@, [id |-> m.trade_id_counter, sim_day |-> sim_day,
                                        quantity |-> qty, price |-> price, cost |-> cost,
                                        buyer |-> bid.owner, seller |-> ask.owner])]

\* the while loop of _match_item (i, j are 1-based)
RECURSIVE MatchLoop(_, _, _, _)
MatchLoop(m, i, j, sim_day) ==
    IF i > Len(m.bids) \/ j > Len(m.asks) THEN m
    ELSE LET best_bid == m.bids[i]
             best_ask == m.asks[j]
         IN IF best_bid.price < best_ask.price THEN m
            ELSE LET trade_price == IF best_bid.timestamp < best_ask.timestamp
                                    THEN best_bid.price ELSE best_ask.price
                     qty0 == Min2(best_bid.quantity, best_ask.quantity)
                     cost0 == qty0 * trade_price
                     paid == pay_in_silver(m.silver[best_bid.owner], cost0)
                     trade_qty == IF paid < cost0 THEN paid \div trade_price ELSE qty0
                     cost == IF paid < cost0 THEN paid ELSE cost0
                     m1 == [m EXCEPT !.silver[best_bid.owner] = @ - paid]
                 IN IF trade_qty <= 0
                    THEN MatchLoop([m1 EXCEPT !.bids[i].quantity = 0], i + 1, j, sim_day)
                    ELSE LET m2 == _fill_order(m1, i, j, trade_qty, trade_price, cost, sim_day)
                         IN MatchLoop(m2,
                                      IF m2.bids[i].quantity <= 0 THEN i + 1 ELSE i,
                                      IF m2.asks[j].quantity <= 0 THEN j + 1 ELSE j,
                                      sim_day)

\* _match_item: the loop, then the pruning of the empty orders
_match_item(m, sim_day) ==
    LET m1 == MatchLoop(m, 1, 1, sim_day)
    IN [m1 EXCEPT !.bids = SelectSeq(@, LAMBDA b : b.quantity > 0),
                  !.asks = SelectSeq(@, LAMBDA a : a.quantity > 0)]

\* _remove_expired_orders without a simulation: expired orders are dropped
_remove_expired_orders(m, today) ==
    [m EXCEPT !.bids = SelectSeq(@, LAMBDA o : o.valid_until_day >= today),
              !.asks = SelectSeq(@, LAMBDA o : o.valid_until_day >= today)]

\* match_orders_for_day(current_day)
match_orders_for_day(m, current_day) ==
    _match_item(_remove_expired_orders(m, current_day), current_day)

\* one call of the host on the warehouse
MarketCall(m, op) ==
    /\ pc = "market"
    /\ budget > 0
    /\ world' = [m EXCEPT !.last_op = op]
    /\ budget' = budget - 1
    /\ UNCHANGED schedVars

Deposit == \E o \in Owners, fs \in BOOLEAN :
               MarketCall(deposit(world, o, 2, fs), "deposit")

Withdraw == \E o \in Owners : MarketCall(withdraw(world, o, 2), "withdraw")

PlaceAsk == \E o \in Owners, p \in {1, 2}, v \in {0, 3} :
                MarketCall(place_ask(world, o, 2, p, world.day, v), "place_ask")

PlaceBid == \E o \in Owners, v \in {0, 3} :
                MarketCall(place_bid(world, o, 2, 1, world.day, v), "place_bid")

MatchDay == MarketCall(match_orders_for_day(world, world.day), "match_orders_for_day")

\* the simulation moves on to the next day
NextDay ==
    /\ pc = "market"
    /\ world.day < MaxDay
    /\ world' = [world EXCEPT !.day = @ + 1, !.last_op = "next_day"]
    /\ UNCHANGED <<schedVars, budget>>

InitMarket ==
    /\ \E purse \in {0, 1, 10} : world = NewMarket(purse)
    /\ pc = "market"
    /\ budget = MaxMarketOps
    /\ sys_idx = 1
    /\ passed = <<>> /\ built = <<>> /\ list_ops = 0 /\ systems = <<>>
    /\ dt_ns = DEFAULT_DT_NS /\ num_left = 0 /\ run_n = 0 /\ run_start = 0 /\ called = <<>>

NextMarket ==
    \/ Deposit
    \/ Withdraw
    \/ PlaceAsk
    \/ PlaceBid
    \/ MatchDay
    \/ NextDay

SpecMarket == InitMarket /\ [][NextMarket]_vars

----------------------------------------------------------------------------

(* Properties *)

\* C1: run(n, world) executes exactly n ticks: when run returns, world.tick
\* has grown by exactly n; within each tick the counter is incremented before
\* any system runs, every system is then invoked exactly once (in the stored
\* order), and the event queues are empty once the tick has been flushed.
C1_RunExecutesNTicks ==
    /\ pc = "returned" => world.tick = run_start + run_n
    /\ pc \in {"sys", "flush"} => world.tick = run_start + (run_n - num_left)
    /\ pc = "sys" => called = SubSeq(systems, 1, sys_idx - 1)
    /\ pc = "flush" => called = systems
    /\ (pc \in {"tick", "returned"} /\ run_n > 0) =>
           (world.events = <<>> /\ world.deferred = <<>>)

\* a second call of run, of two ticks over two systems, has returned
C1_Witness ==
    /\ pc = "returned"
    /\ run_n = 2
    /\ run_start > 0
    /\ called = <<"move", "col">>

IndexIn(list, s) == CHOOSE i \in 1..Len(list) : list[i] = s

\* C2: the invocation order is fixed by the constructor: it is the list as it
\* was at construction, in ascending priority (missing priority = 0), systems of
\* equal priority in the order passed; every tick invokes exactly that order,
\* whatever the caller does to the list afterwards.
C2_OrderFixedAtConstruction ==
    /\ Len(systems) = Len(built)
    /\ {systems[i] : i \in 1..Len(systems)} = {built[i] : i \in 1..Len(built)}
    /\ \A i, j \in 1..Len(systems) :
          i < j => /\ Priority(systems[i]) <= Priority(systems[j])
                   /\ Priority(systems[i]) = Priority(systems[j])
                         => IndexIn(built, systems[i]) < IndexIn(built, systems[j])
    /\ pc = "flush" => called = systems

\* a tick has run after the caller edited the list; two systems of equal priority
C2_Witness ==
    /\ pc = "flush"
    /\ list_ops > 0
    /\ passed # built
    /\ built = <<"bleed", "atk">>
    /\ world.tick = 2

\* C3: a scheduler built from [MovementSystem, CollisionSystem, AttackSystem]
\* runs Movement, then Collision, then Attack in every tick.
C3_MoveColAtkOrder ==
    (built = <<"move", "col", "atk">> /\ pc = "flush") =>
        called = <<"move", "col", "atk">>

\* C5: at most one ImpactEvent is posted by AttackSystem per (attacker, swing_id).
C5_AtMostOneHitPerSwing ==
    \A i, j \in 1..Len(world.hitlog) : i # j => world.hitlog[i] # world.hitlog[j]

\* an attacker has hit in two different swings, with an active phase of several ticks
C5_Witness ==
    \E i, j \in 1..Len(world.hitlog) :
        /\ world.hitlog[i][1] = world.hitlog[j][1]
        /\ world.hitlog[i][2] # world.hitlog[j][2]
        /\ world.wep[world.hitlog[i][1]].profiles[1].active_ticks >= 2

PhaseSucc(p) ==
    CASE p = "IDLE" -> "WINDUP"
      [] p = "WINDUP" -> "ACTIVE"
      [] p = "ACTIVE" -> "RECOVERY"
      [] p = "RECOVERY" -> "IDLE"

\* C6 as stated: for profiles with windup, active and recovery tick counts
\* >= 1, the phase of an AttackState seen after consecutive ticks stays the
\* same or advances by exactly one step of IDLE -> WINDUP -> ACTIVE -> RECOVERY
\* -> IDLE.
C6_PhaseCycleAsStated ==
    [][\A e \in DOMAIN world.st :
          (/\ e \in DOMAIN world.wep
           /\ world.wep[e].profiles[1].windup_ticks >= 1
           /\ world.wep[e].profiles[1].active_ticks >= 1
           /\ world.wep[e].profiles[1].recovery_ticks >= 1)
          => world'.st[e].phase \in {world.st[e].phase, PhaseSucc(world.st[e].phase)}]_vars

\* C6: for profiles with a windup of at least 2 ticks and active and recovery
\* counts of at least 1, the phase of an AttackState seen after consecutive
\* ticks stays the same or advances by exactly one step of the cycle.
C6_PhaseCycle ==
    [][\A e \in DOMAIN world.st :
          (/\ e \in DOMAIN world.wep
           /\ world.wep[e].profiles[1].windup_ticks >= 2
           /\ world.wep[e].profiles[1].active_ticks >= 1
           /\ world.wep[e].profiles[1].recovery_ticks >= 1)
          => world'.st[e].phase \in {world.st[e].phase, PhaseSucc(world.st[e].phase)}]_vars

\* an entity with such a profile has gone once round the cycle and is in its
\* second ACTIVE phase
C6_Witness ==
    \E e \in DOMAIN world.st :
        /\ world.wep[e].profiles[1].windup_ticks >= 2
        /\ world.wep[e].profiles[1].active_ticks >= 1
        /\ world.wep[e].profiles[1].recovery_ticks >= 1
        /\ world.st[e].swing_id = 1
        /\ world.st[e].phase = "ACTIVE"

\* C7: for profiles with non-negative tick counts, ticks_left >= 0 after every
\* AttackSystem update, in every phase.
C7_TicksLeftNonNegative ==
    \A e \in DOMAIN world.st :
        (/\ e \in DOMAIN world.wep
         /\ world.wep[e].profiles[1].windup_ticks >= 0
         /\ world.wep[e].profiles[1].active_ticks >= 0
         /\ world.wep[e].profiles[1].recovery_ticks >= 0)
        => world.st[e].ticks_left >= 0

\* C8: in every tick in which an AttackState is not idle, ticks_left is
\* decremented by exactly 1 and the phase changes in that tick exactly when the
\* decremented value is 0.
C8_MonotonePhaseTimer ==
    [][(pc = "sys" /\ systems[sys_idx] = "atk" /\ world'.raised = "none") =>
        \A e \in DOMAIN world.st :
            (e \in DOMAIN world.wep /\ world.st[e].phase # "IDLE") =>
                /\ (world'.st[e].phase # world.st[e].phase)
                      <=> (world.st[e].ticks_left - 1 = 0)
                /\ (world'.st[e].phase = world.st[e].phase)
                      => world'.st[e].ticks_left = world.st[e].ticks_left - 1]_vars

\* C9: after every tick every limb layer and organ has 0 <= current <= max and
\* the blood pool of every Vitals is >= 0.
C9_HitPointClamps ==
    \A e \in DOMAIN world.vitals :
        /\ world.vitals[e].blood_ml >= 0
        /\ \A i \in 1..Len(world.limbs[e]) :
              /\ world.limbs[e][i].curr_skin \in 0..world.limbs[e][i].max_skin
              /\ world.limbs[e][i].curr_muscle \in 0..world.limbs[e][i].max_muscle
              /\ world.limbs[e][i].curr_bone \in 0..world.limbs[e][i].max_bone
        /\ \A i \in 1..Len(world.organs[e]) : \A j \in 1..Len(world.organs[e][i]) :
              world.organs[e][i][j].curr_hp \in 0..world.organs[e][i][j].max_hp

\* number of exsanguination DeathEvents posted so far for entity e
ExsanguinationsOf(w, e) ==
    Len(SelectSeq(w.log, LAMBDA ev : /\ ev.kind = "DeathEvent"
                                     /\ ev.entity_id = e
                                     /\ ev.cause = "exsanguination"))

\* C10: in the tick in which the drain brings a living entity's blood pool to 0
\* or below, exactly one exsanguination DeathEvent is posted for it (stamped
\* with that tick) and is_alive becomes false; afterwards its blood pool never
\* changes and no further exsanguination DeathEvent is posted for it.
C10_ExsanguinationBoundary ==
    [][\A e \in DOMAIN world.vitals :
          /\ (world.vitals[e].is_alive /\ world'.vitals[e].blood_ml <= 0) =>
                /\ ~world'.vitals[e].is_alive
                /\ ExsanguinationsOf(world', e) = ExsanguinationsOf(world, e) + 1
                /\ world'.log[Len(world'.log)].tick = world'.tick
                /\ world'.tick = world.tick + 1
          /\ (world.vitals[e].is_alive /\ world'.vitals[e].blood_ml > 0) =>
                /\ world'.vitals[e].is_alive
                /\ ExsanguinationsOf(world', e) = ExsanguinationsOf(world, e)
          /\ ~world.vitals[e].is_alive =>
                /\ ~world'.vitals[e].is_alive
                /\ world'.vitals[e].blood_ml = world.vitals[e].blood_ml
                /\ ExsanguinationsOf(world', e) = ExsanguinationsOf(world, e)]_vars

\* an entity bled out to exactly 0 in an earlier tick and still carries wounds
C10_Witness ==
    \E e \in DOMAIN world.vitals :
        /\ ~world.vitals[e].is_alive
        /\ world.vitals[e].blood_ml = 0
        /\ ExsanguinationsOf(world, e) = 1
        /\ e \in DOMAIN world.bleed_sources
        /\ \E i \in 1..Len(world.log) :
              world.log[i].cause = "exsanguination" /\ world.log[i].tick < world.tick

\* C11: whenever a tick's damage brings an organ from above 0 to 0 hit points,
\* a DeathEvent with cause "organ_failure" for the defender, stamped with that
\* tick, is posted in that tick.
C11_OrganFailureDeath ==
    [][\A e \in DOMAIN world.organs :
          \A i \in 1..Len(world.organs[e]) : \A j \in 1..Len(world.organs[e][i]) :
             (world.organs[e][i][j].curr_hp > 0 /\ world'.organs[e][i][j].curr_hp = 0)
             => \E k \in (Len(world.log) + 1)..Len(world'.log) :
                   /\ world'.log[k].kind = "DeathEvent"
                   /\ world'.log[k].cause = "organ_failure"
                   /\ world'.log[k].entity_id = e
                   /\ world'.log[k].tick = world'.tick]_vars

\* an organ was worn down over two ticks and failed in the second
C11_Witness ==
    \E e \in DOMAIN world.organs :
        /\ \E i \in 1..Len(world.organs[e]) : \E j \in 1..Len(world.organs[e][i]) :
              world.organs[e][i][j].curr_hp = 0
        /\ \E k \in 1..Len(world.log) :
              /\ world.log[k].cause = "organ_failure"
              /\ world.log[k].entity_id = e
              /\ world.log[k].tick >= 2

\* squared centre distance of two entities
Dist2(a, b) ==
    (world.pos[a].x - world.pos[b].x) * (world.pos[a].x - world.pos[b].x)
    + (world.pos[a].y - world.pos[b].y) * (world.pos[a].y - world.pos[b].y)

\* the last system invoked in the current tick is CollisionSystem
AfterCollision == called # <<>> /\ called[Len(called)] = "col"

\* C12: after every CollisionSystem call every pair of entities with a position
\* and a radius has centre distance >= the sum of the radii, up to 5 mm.
C12_NonOverlap ==
    AfterCollision =>
        \A a, b \in DOMAIN world.pos \cap DOMAIN world.rad :
            a # b => Dist2(a, b) >= (world.rad[a] + world.rad[b] - 5)
                                    * (world.rad[a] + world.rad[b] - 5)

\* C13: the simulated bout of _build_world always resolves: some tick_once is
\* followed by a terminal event (a surrender or a death) that _simulate_bout
\* returns, instead of the tick budget running out
C13_BoutResolves == <>(pc = "bout_returned")

\* C14: after the 500 idle ticks of the recovery scenario the entity that
\* started at 0 stamina (entity 0) has min(max_pts, 100) stamina and is not
\* exhausted, whether or not its exhausted flag was set at the start
C14_RecoveryScenario ==
    world.tick = RecoveryTicks =>
        /\ world.stamina[0].curr_pts = Min2(world.stamina[0].max_pts, 100) * StaminaUnit
        /\ ~world.stamina[0].exhausted

\* C15: an entity whose exhausted flag is set and that stays idle eventually
\* has exhausted = false again
C15_ExhaustionClears ==
    \A e \in Entities : world.stamina[e].exhausted ~> ~world.stamina[e].exhausted

SamplesOf(evq, e) ==
    SelectSeq(evq, LAMBDA ev : ev.kind = "ActivitySampleEvent" /\ ev.entity_id = e)

ExhaustionsOf(evq, e) ==
    SelectSeq(evq, LAMBDA ev : ev.kind = "ExhaustionEvent" /\ ev.entity_id = e)

\* stamina cost divided by tick duration, summed over a sequence of samples
RECURSIVE DrainSum(_)
DrainSum(evs) ==
    IF evs = <<>> THEN 0
    ELSE (ACTION_SPECS[Head(evs).action_id].stamina * StaminaUnit)
             \div ACTION_SPECS[Head(evs).action_id].ticks
         + DrainSum(Tail(evs))

\* C16: a FatigueSystem call lowers every entity's stamina by cost / duration for
\* each of its activity samples, never below 0; it posts one ExhaustionEvent
\* (of the current tick) for an entity exactly when the entity's exhausted flag
\* goes from false to true, which is when a sample leaves the stamina at 0,
\* and none while the flag is already set
C16_FatigueDrain ==
    [][(NextSystem = "fatigue" /\ world'.raised = "none") =>
          \A e \in DOMAIN world.stamina :
             LET posted == Len(ExhaustionsOf(world'.events, e))
                               - Len(ExhaustionsOf(world.events, e))
                 nowEx == world'.stamina[e].exhausted
             IN /\ world'.stamina[e].curr_pts =
                       Max2(0, world.stamina[e].curr_pts - DrainSum(SamplesOf(world.events, e)))
                /\ nowEx = (world.stamina[e].exhausted
                               \/ (SamplesOf(world.events, e) # <<>>
                                      /\ world'.stamina[e].curr_pts = 0))
                /\ posted = IF ~world.stamina[e].exhausted /\ nowEx THEN 1 ELSE 0
                /\ posted = 1 =>
                      ExhaustionEvent(world.tick, e) \in
                          {world'.events[k] : k \in 1..Len(world'.events)}]_vars

\* FatigueSystem has just exhausted an entity and posted its ExhaustionEvent
C16_Witness ==
    /\ LastSystem = "fatigue"
    /\ \E e \in DOMAIN world.stamina :
          /\ world.stamina[e].exhausted /\ world.stamina[e].curr_pts = 0
          /\ Len(ExhaustionsOf(world.events, e)) = 1
          /\ world.host_posts = 1

\* C17: a RecoverySystem call leaves the stamina of every entity with an
\* activity sample posted in the current tick unchanged, and adds regen_per_tick
\* (a quarter of it in DESPERATE morale), capped at max_pts, to every entity
\* without one that is not exhausted
C17_Recovery ==
    [][(NextSystem = "recovery" /\ world'.raised = "none") =>
          \A e \in DOMAIN world.stamina :
             LET st == world.stamina[e]
                 regen == IF world.morale[e].state = "DESPERATE"
                          THEN st.regen_per_tick \div 4 ELSE st.regen_per_tick
             IN IF <<world.tick, e>> \in world.sampled
                THEN world'.stamina[e].curr_pts = st.curr_pts
                ELSE ~st.exhausted =>
                        world'.stamina[e].curr_pts =
                            Min2(st.max_pts * StaminaUnit, st.curr_pts + regen)]_vars

\* number of events of a kind, posted in the current tick, that name e in a field
CountNow(kind, field, e) ==
    Len(SelectSeq(world.events,
                  LAMBDA ev : ev.kind = kind /\ ev.tick = world.tick /\ ev[field] = e))

\* C18: a MoraleSystem call changes every entity's morale by +5 for each impact
\* of the current tick it is the attacker of, -10 for each it is the defender
\* of, -100 for each of its deaths and -15 for each of its exhaustion events,
\* the result clamped to [0, 100]
C18_MoraleShocks ==
    [][(NextSystem = "morale" /\ world'.raised = "none") =>
          \A e \in DOMAIN world.morale :
             world'.morale[e].value =
                 Max2(0, Min2(100, world.morale[e].value
                                      + 5 * CountNow("ImpactEvent", "entity_id", e)
                                      - 10 * CountNow("ImpactEvent", "defender_id", e)
                                      - 100 * CountNow("DeathEvent", "entity_id", e)
                                      - 15 * CountNow("ExhaustionEvent", "entity_id", e)))]_vars

\* the band of a morale value as the bands are documented
BandOf(v) ==
    IF v >= 90 THEN "DETERMINED"
    ELSE IF v >= 65 THEN "COMPOSED"
    ELSE IF v >= 40 THEN "UNCERTAIN"
    ELSE IF v >= 15 THEN "FRACTURED"
    ELSE "DESPERATE"

\* C19: every morale value is an integer in [0, 100] and the stored state is
\* the band of the value, in every reachable state of a world whose Morale
\* components start consistent, so in particular after every MoraleSystem update
C19_MoraleBand ==
    \A e \in DOMAIN world.morale :
        /\ world.morale[e].value \in 0..100
        /\ world.morale[e].state = BandOf(world.morale[e].value)

\* MoraleSystem has just moved an entity onto the lower bound of a band, and
\* another one down to the clamp at 0
C19_Witness ==
    /\ LastSystem = "morale"
    /\ \E e \in DOMAIN world.morale : world.morale[e] = Morale(15, "FRACTURED")
    /\ \E e \in DOMAIN world.morale : world.morale[e] = Morale(0, "DESPERATE")

\* the SurrenderEvents of a queue
Surrenders(evq) == SelectSeq(evq, LAMBDA ev : ev.kind = "SurrenderEvent")

\* C20: every SurrenderEvent a MoraleSystem call posts names an entity whose
\* state after the update is DESPERATE and for which value - 15 < 10 or the
\* exhausted flag holds; its cause is "exhaustion" exactly when the entity is
\* exhausted and "low_morale" otherwise
C20_Surrender ==
    [][NextSystem = "morale" =>
          \A k \in 1..Len(Surrenders(world'.events)) :
             LET ev == Surrenders(world'.events)[k]
                 e == ev.entity_id
             IN ev.tick = world.tick =>
                   /\ world'.morale[e].state = "DESPERATE"
                   /\ BandOf(world'.morale[e].value) = "DESPERATE"
                   /\ (world'.morale[e].value - 15 < 10 \/ world'.stamina[e].exhausted)
                   /\ ev.cause = IF world'.stamina[e].exhausted
                                 THEN "exhaustion" ELSE "low_morale"]_vars

\* MoraleSystem has posted a surrender of each cause
C20_Witness ==
    /\ \E k \in 1..Len(Surrenders(world.events)) :
          Surrenders(world.events)[k].cause = "low_morale"
    /\ \E k \in 1..Len(Surrenders(world.events)) :
          Surrenders(world.events)[k].cause = "exhaustion"

\* C21: events are tick-scoped: when a tick starts, the event queue holds no
\* event posted during an earlier tick (here under the tick_once driver, whose
\* states are the tick boundaries of _simulate_bout)
C21_EventsTickScoped ==
    \A k \in 1..Len(world.events) : world.events[k].tick >= world.tick

\* C22: every ImpactEvent AttackSystem posts in a tick whose system list also
\* runs DamageSystem changes the anatomy (the limb pools) of its defender in
\* that tick
C22_ImpactDelivered ==
    [][\A k \in (Len(world.log) + 1)..Len(world'.log) :
          world'.log[k].kind = "ImpactEvent" =>
              world'.limbs[world'.log[k].defender_id] # world.limbs[world'.log[k].defender_id]]_vars

\* C23: no identifier is ever returned twice by one generator, over any
\* sequence of next_id and reset calls
C23_IdsNeverReused ==
    \A i, j \in 1..Len(world.issued) : i # j => world.issued[i] # world.issued[j]

\* C24: after add(id, v) the store holds v for id, whatever it held before, and
\* the components of the other ids are as before; get returns the component or
\* the absence marker and changes nothing; remove(id) leaves id absent and the
\* other ids as before, and changes nothing at all when id was already absent
C24_ComponentStore ==
    [][LET op == world'.last_op
           others == (DOMAIN world.rad \cup DOMAIN world'.rad) \ {op.eid}
           othersKept == \A e \in others :
                            /\ e \in DOMAIN world.rad /\ e \in DOMAIN world'.rad
                            /\ world'.rad[e] = world.rad[e]
       IN /\ op.op = "add" =>
                /\ op.eid \in DOMAIN world'.rad /\ world'.rad[op.eid] = op.ret
                /\ othersKept
          /\ op.op = "get" =>
                /\ world'.rad = world.rad
                /\ op.ret = IF op.eid \in DOMAIN world.rad THEN world.rad[op.eid] ELSE NoField
          /\ op.op = "remove" =>
                /\ op.eid \notin DOMAIN world'.rad
                /\ othersKept
                /\ op.eid \notin DOMAIN world.rad => world'.rad = world.rad]_vars

\* an add has stored its component next to the component of another id
C24_Witness ==
    /\ world.last_op.op = "add"
    /\ DOMAIN world.rad = StoreIds
    /\ world.rad[world.last_op.eid] = world.last_op.ret

\* C25: a system that meets an entity lacking a component it needs skips the
\* entity and the run continues: no system call ends with an error
C25_MissingSkipped == world.raised = "none"

\* C26: effective_ticks returns an integer >= 1 for known arguments and raises
\* for an unknown action id or class; the coordination bonus never shortens the
\* duration by more than 20% (the result is never below the one for a
\* coordination of 20), and the perception stat matters only when the phase is
\* DEFEND
C26_EffectiveTicks ==
    world.called =>
        LET known == /\ world.action_id \in DOMAIN ACTION_SPECS
                     /\ world.armor_class \in DOMAIN ENC_MULT.armor
                     /\ world.weapon_class \in DOMAIN ENC_MULT.weapon
            at(co, pe) == effective_ticks(world.action_id, world.armor_class,
                                          world.weapon_class, world.stamina_curr,
                                          world.stamina_exhaust, co, pe, world.phase)
        IN IF ~known THEN world.raised # "none"
           ELSE /\ world.raised = "none"
                /\ world.ret >= 1
                /\ world.ret >= at(20, world.percep).ret
                /\ world.phase # "DEFEND" => world.ret = at(world.coord, 0).ret

\* C27: a call of MovementSystem moves every entity that has a position and a
\* velocity by velocity * dt, dt being the tick duration of the scheduler that
\* calls it, and leaves every other position unchanged
C27_MovementIntegration ==
    [][(pc = "sys" /\ systems[sys_idx] = "move") =>
          \A e \in DOMAIN world.pos :
              world'.pos[e] =
                  IF e \in DOMAIN world.vel
                  THEN [x |-> world.pos[e].x
                                + RDiv(world.vel[e].vx * (dt_ns \div 1000000), 1000),
                        y |-> world.pos[e].y
                                + RDiv(world.vel[e].vy * (dt_ns \div 1000000), 1000)]
                  ELSE world.pos[e]]_vars

\* an ImpactEvent has been posted since the world was built
ImpactPosted == \E k \in 1..Len(world.log) : world.log[k].kind = "ImpactEvent"

\* C28: in the two-fighter scenario ([movement, collision, attack], fighters
\* 0.4 m apart with radius 0.25 m) an ImpactEvent the run has produced can be
\* read from the world once run has returned, and neither a call of
\* AttackSystem nor the state at the end of a tick sees the two centres closer
\* than 0.5 m
C28_TwoFighterScenario ==
    /\ (pc = "returned" /\ ImpactPosted) =>
           \E k \in 1..Len(world.events) : world.events[k].kind = "ImpactEvent"
    /\ (pc = "sys" /\ systems[sys_idx] = "atk") => Dist2(0, 1) >= 500 * 500
    /\ (pc \in {"tick", "returned"} /\ world.tick > 0) => Dist2(0, 1) >= 500 * 500

\* the cell of an entity in the grid the next CollisionSystem call builds
CellNow(e) ==
    LET radii == {world.rad[q] : q \in DOMAIN world.rad}
        max_r == IF radii = {} THEN 0 ELSE CHOOSE r \in radii : \A q \in radii : q <= r
    IN CellKey(world.pos[e], Max2(10, 2 * max_r))

\* same cell or one of the 8 neighbouring cells
AdjacentCells(k1, k2) == Abs(k1[1] - k2[1]) <= 1 /\ Abs(k1[2] - k2[2]) <= 1

\* how often the unordered pair {a, b} occurs in a sequence of overlap tests
TestCount(tests, a, b) ==
    Cardinality({k \in 1..Len(tests) : tests[k] \in {<<a, b>>, <<b, a>>}})

\* C29: one CollisionSystem call tests every unordered pair of entities lying
\* in the same grid cell or in two adjacent cells for overlap exactly once
C29_PairsTestedOnce ==
    [][(pc = "sys" /\ systems[sys_idx] = "col") =>
          \A a, b \in DOMAIN world.pos \cap DOMAIN world.rad :
              (a < b /\ AdjacentCells(CellNow(a), CellNow(b))) =>
                  TestCount(world'.tested, a, b) = 1]_vars

\* C30: over any sequence of impacts an organ loses hit points only in a step
\* that leaves the bone pool of its region at 0 (the limb fractured), on the
\* crush path and on the penetration path alike
C30_OrganNeedsFracture ==
    [][\A e \in DOMAIN world.organs :
          \A li \in 1..Len(world.organs[e]) :
              \A oi \in 1..Len(world.organs[e][li]) :
                  world'.organs[e][li][oi].curr_hp < world.organs[e][li][oi].curr_hp =>
                      world'.limbs[e][li].curr_bone = 0]_vars

\* the brain was damaged by a hit that broke the skull (20 bone points at the
\* start), and the carotid by blunt impacts only
C30_Witness ==
    /\ world.organs[1][1][1].curr_hp < world.organs[1][1][1].max_hp
    /\ world.limbs[1][1].max_bone > 0 /\ world.limbs[1][1].curr_bone = 0
    /\ world.organs[1][2][1].curr_hp < world.organs[1][2][1].max_hp
    /\ world.limbs[1][2].curr_bone = 0
    /\ \A k \in 1..Len(world.log) :
           (world.log[k].kind = "ImpactEvent" /\ world.log[k].limb_idx = 2) =>
               world.log[k].edge_type = "blunt"

\* the external bleed sources of limb li of entity e
ExternalSources(e, li) ==
    IF e \in DOMAIN world.bleed_sources
    THEN Len(SelectSeq(world.bleed_sources[e],
                       LAMBDA s : s.limb_idx = li /\ ~s.internal))
    ELSE 0

\* C31: a skin or muscle pool that has reached zero has spawned exactly one
\* external BleedSource for its limb, in the tick in which it reached zero, and
\* no external source is spawned on any other occasion: after every tick a limb
\* has as many external sources as it has emptied skin and muscle pools
C31_BleedSpawning ==
    \A e \in DOMAIN world.limbs :
        \A li \in 1..Len(world.limbs[e]) :
            ExternalSources(e, li) =
                (IF world.limbs[e][li].curr_skin = 0 THEN 1 ELSE 0)
                + (IF world.limbs[e][li].curr_muscle = 0 THEN 1 ELSE 0)

\* the sum of the rates of the bleed sources of entity e in world w
RateOf(w, e) == IF e \in DOMAIN w.bleed_sources THEN TotalRate(w.bleed_sources[e]) ELSE 0

\* C32: every tick lowers the blood pool of each living entity by the sum of
\* the rates of its bleed sources times dt and leaves the pool of a dead entity
\* unchanged; bleed sources are never removed, so the total rate of an entity
\* never decreases and its blood pool never increases
C32_BleedDrain ==
    [][\A e \in DOMAIN world.vitals :
          /\ RateOf(world', e) >= RateOf(world, e)
          /\ e \in DOMAIN world.bleed_sources =>
                /\ Len(world'.bleed_sources[e]) >= Len(world.bleed_sources[e])
                /\ SubSeq(world'.bleed_sources[e], 1, Len(world.bleed_sources[e]))
                      = world.bleed_sources[e]
          /\ world'.vitals[e].blood_ml <= world.vitals[e].blood_ml
          /\ world'.tick = world.tick =>
                world'.vitals[e].blood_ml = world.vitals[e].blood_ml
          /\ world'.tick = world.tick + 1 =>
                world'.vitals[e].blood_ml =
                    IF world.vitals[e].is_alive
                    THEN world.vitals[e].blood_ml
                         - RDiv(RateOf(world', e) * (DEFAULT_DT_NS \div 1000000), 1000)
                    ELSE world.vitals[e].blood_ml]_vars

\* a living entity with open wounds whose pool has been drained below the
\* default 5 000 ml, beside states where a dead entity still carries wounds
C32_Witness ==
    \E e \in DOMAIN world.vitals :
        /\ world.vitals[e].is_alive
        /\ RateOf(world, e) > 0
        /\ world.vitals[e].blood_loss_rate_ml_s = RateOf(world, e)
        /\ world.vitals[e].blood_ml < 5000000
        /\ world.vitals[e].blood_ml > 6400

\* C33: in an AttackSystem call an entity leaves IDLE (for WINDUP, which a
\* windup of at most one tick already turns into ACTIVE within the call) only
\* when the tick number is a multiple of DEFAULT_AUTOSWING; every idle entity
\* with a weapon and an opponent does so in every such tick, with the weapon's
\* first profile and its opponent as target; an entity that enters ACTIVE has
\* has_hit false unless its swing connects in that very call
C33_AutoSwingCadence ==
    [][(pc = "sys" /\ systems[sys_idx] = "atk" /\ world'.raised = "none") =>
          \A e \in DOMAIN world'.st :
              LET before == IF e \in DOMAIN world.st THEN world.st[e] ELSE AttackState
                  after == world'.st[e]
                  struck == \E k \in (Len(world.hitlog) + 1)..Len(world'.hitlog) :
                                world'.hitlog[k][1] = e
              IN /\ (before.phase = "IDLE" /\ after.phase # "IDLE") =>
                        /\ world.tick % DEFAULT_AUTOSWING = 0
                        /\ after.phase \in {"WINDUP", "ACTIVE"}
                 /\ (/\ before.phase = "IDLE"
                     /\ e \in DOMAIN world.wep /\ e \in DOMAIN world.opp
                     /\ world.tick % DEFAULT_AUTOSWING = 0) =>
                        /\ after.phase # "IDLE"
                        /\ after.profile_idx = 1
                        /\ after.target_id = world.opp[e]
                 /\ (before.phase # "ACTIVE" /\ after.phase = "ACTIVE") =>
                        (~after.has_hit \/ struck)]_vars

\* the second swing of an entity is under way in tick 120, after a first swing
\* that began in tick 60 and connected
C33_Witness ==
    \E e \in DOMAIN world.st :
        /\ world.tick = 2 * DEFAULT_AUTOSWING
        /\ world.st[e].swing_id = 1
        /\ world.st[e].phase # "IDLE"
        /\ \E k \in 1..Len(world.hitlog) : world.hitlog[k] = <<e, 0>>

\* the direction of the weapon of attacker e in world w (unit vector times 1000)
\* and the stretch factor of its capsule offsets, from the state of its swing
SwingOf(w, e) ==
    LET state == w.st[e]
        prof == w.wep[e].profiles[state.profile_idx]
        ap == w.pos[e]
        dp == w.pos[state.target_id]
        dist == ISqrt((dp.x - ap.x) * (dp.x - ap.x) + (dp.y - ap.y) * (dp.y - ap.y))
        Hx == IF dist = 0 THEN 0 ELSE RDiv((dp.x - ap.x) * 1000, dist)
        Hy == IF dist = 0 THEN 0 ELSE RDiv((dp.y - ap.y) * 1000, dist)
        theta == ThetaMrad(state.ticks_left, prof.active_ticks)
    IN IF prof.kind = "swing"
       THEN [u |-> [x |-> RDiv(Cos1000(theta) * Hx - Sin1000(theta) * Hy, 1000),
                    y |-> RDiv(Cos1000(theta) * Hy + Sin1000(theta) * Hx, 1000)],
             factor |-> [num |-> 1, den |-> 1]]
       ELSE [u |-> [x |-> Hx, y |-> Hy],
             factor |-> [num |-> prof.active_ticks - state.ticks_left,
                         den |-> prof.active_ticks]]

\* the centre of hit capsule i of attacker e
CapsuleAt(w, e, i) ==
    Contact(w.wep[e].hit_segments[i], w.pos[e], SwingOf(w, e).u, SwingOf(w, e).factor)

\* hit capsule i of attacker e reaches the defender's circle
Qualifies(w, e, i) ==
    LET c == CapsuleAt(w, e, i)
        dp == w.pos[w.st[e].target_id]
        limit == w.wep[e].hit_segments[i].radius_m + w.rad[w.st[e].target_id]
    IN (dp.x - c[1]) * (dp.x - c[1]) + (dp.y - c[2]) * (dp.y - c[2]) <= limit * limit

\* the impacts attacker e posted in the step from w to w2
NewImpacts(w, w2, e) ==
    SelectSeq(SubSeq(w2.events, Len(w.events) + 1, Len(w2.events)),
              LAMBDA ev : ev.kind = "ImpactEvent" /\ ev.entity_id = e)

\* C34: in an AttackSystem call an attacker posts at most one ImpactEvent, and
\* the event carries the tag and the contact point of the first capsule, in the
\* weapon's declared segment order, that reaches the defender: every capsule
\* declared before it does not qualify, whatever the later capsules do
C34_FirstCapsuleWins ==
    [][(pc = "sys" /\ systems[sys_idx] = "atk" /\ world'.raised = "none") =>
          \A e \in DOMAIN world'.st :
              LET imp == NewImpacts(world, world', e)
                  segs == world'.wep[e].hit_segments
              IN /\ Len(imp) <= 1
                 /\ Len(imp) = 1 =>
                       \E i \in 1..Len(segs) :
                           /\ Qualifies(world', e, i)
                           /\ \A j \in 1..(i - 1) : ~Qualifies(world', e, j)
                           /\ imp[1].contact_part = segs[i].tag
                           /\ imp[1].contact_xy = CapsuleAt(world', e, i)]_vars

\* an impact on the second capsule was posted in a tick where the third capsule
\* reached the defender too and the first one did not
C34_Witness ==
    \E e \in DOMAIN world.st, k \in 1..Len(world.events) :
        /\ pc = "sys"
        /\ world.events[k].kind = "ImpactEvent"
        /\ world.events[k].entity_id = e
        /\ world.events[k].tick = world.tick
        /\ world.events[k].contact_part = "weak_edge"
        /\ world.st[e].phase = "ACTIVE"
        /\ ~Qualifies(world, e, 1)
        /\ Qualifies(world, e, 2)
        /\ Qualifies(world, e, 3)

\* the activity samples posted for entity e in the step from w to w2
NewSamples(w, w2, e) ==
    SelectSeq(SubSeq(w2.events, Len(w.events) + 1, Len(w2.events)),
              LAMBDA ev : ev.kind = "ActivitySampleEvent" /\ ev.entity_id = e)

C36_MovementActivitySample ==
    [][(pc = "sys" /\ systems[sys_idx] = "move") =>
          \A e \in DOMAIN world.pos :
              LET smp == NewSamples(world, world', e)
                  moving == /\ e \in DOMAIN world.vel
                            /\ (world.vel[e].vx # 0 \/ world.vel[e].vy # 0)
                  dx == world'.pos[e].x - world.pos[e].x
                  dy == world'.pos[e].y - world.pos[e].y
              IN IF moving
                 THEN /\ Len(smp) = 1
                      /\ smp[1].action_id = "walk_step"
                      /\ smp[1].tick = world'.tick
                      /\ smp[1].metres_moved = ISqrt(dx * dx + dy * dy)
                 ELSE Len(smp) = 0]_vars

\* Vitals.blood_ml at its dataclass default, the full blood volume (0.001 ml)
FULL_BLOOD_ML == 5000000

\* C37: a MoraleSystem call over fighters with Vitals completes, and leaves
\* the morale of a fighter that has lost no blood and suffers no other shock in
\* this tick unchanged, while it does not raise the morale of a fighter that has
\* lost blood
C37_BloodLossErosion ==
    [][(NextSystem = "morale" /\ DOMAIN world.vitals # {}) =>
          /\ world'.raised = "none"
          /\ \A e \in DOMAIN world.vitals \cap DOMAIN world.morale :
                CountNow("ExhaustionEvent", "entity_id", e) = 0 =>
                    IF world.vitals[e].blood_ml = FULL_BLOOD_ML
                    THEN world'.morale[e].value = world.morale[e].value
                    ELSE world'.morale[e].value <= world.morale[e].value]_vars

\* the DeathEvents posted so far for entity e
DeathsOf(e) == SelectSeq(world.log, LAMBDA ev : ev.kind = "DeathEvent" /\ ev.entity_id = e)

\* C38: at most one DeathEvent is ever posted per entity, and an entity for
\* which a DeathEvent (of either cause) has been posted has is_alive = FALSE
C38_DeathFinalOnce ==
    \A e \in DOMAIN world.vitals :
        /\ Len(DeathsOf(e)) <= 1
        /\ Len(DeathsOf(e)) >= 1 => ~world.vitals[e].is_alive

\* sub is what is left of seq after dropping some of its elements
RECURSIVE IsSubSeq(_, _)
IsSubSeq(sub, seq) ==
    IF sub = <<>> THEN TRUE
    ELSE IF seq = <<>> THEN FALSE
    ELSE IF Head(sub) = Head(seq) THEN IsSubSeq(Tail(sub), Tail(seq))
    ELSE IsSubSeq(sub, Tail(seq))

\* the number of places of seq that hold the event ev
Occurrences(seq, ev) == Cardinality({k \in 1..Len(seq) : seq[k] = ev})

\* C39: consume_events(kind) returns the queued events of that kind and no
\* other, each as often as it was queued and in the order of posting; the queue
\* afterwards holds every other event, in the original relative order, and none
\* of that kind; a call that directly follows a call for the same kind returns
\* nothing
C39_ConsumeEvents ==
    [][(budget' = budget - 1 /\ world'.last_op.op = "consume_events") =>
          LET kind == world'.last_op.ret.cls
              got == world'.last_op.ret.matched
          IN /\ \A k \in 1..Len(got) : got[k].kind = kind
             /\ \A k \in 1..Len(world'.events) : world'.events[k].kind # kind
             /\ IsSubSeq(got, world.events)
             /\ IsSubSeq(world'.events, world.events)
             /\ \A ev \in QueueEvents :
                    Occurrences(got, ev) + Occurrences(world'.events, ev)
                        = Occurrences(world.events, ev)
             /\ (world.last_op.op = "consume_events" /\ world.last_op.ret.cls = kind) =>
                    got = <<>>]_vars

\* a call has returned two samples in the order of posting out of a queue in
\* which an event of another kind stood between them, and that one is still queued
C39_Witness ==
    /\ world.last_op.op = "consume_events"
    /\ world.last_op.ret.matched = << ActivitySampleEvent(0, 1, "walk_step", 0),
                                       ActivitySampleEvent(0, 0, "walk_step", 0) >>
    /\ world.events = << ExhaustionEvent(0, 0) >>
    /\ world.log = <<>>

\* the units of the item held by all owners together
RECURSIVE SumHeld(_, _)
SumHeld(m, owners) ==
    IF owners = {} THEN 0
    ELSE LET o == CHOOSE x \in owners : TRUE
         IN m[o] + SumHeld(m, owners \ {o})

TotalHeld(w) == SumHeld(w.owner_map, DOMAIN w.owner_map)

\* C40: match_orders_for_day leaves the total quantity held across all owners
\* of owner_map as it was, after any sequence of deposit, withdraw, place_ask
\* and place_bid, and no holding in owner_map is negative at any time
C40_MatchingConservesGoods ==
    [][/\ (budget' = budget - 1 /\ world'.last_op = "match_orders_for_day") =>
              TotalHeld(world') = TotalHeld(world)
       /\ \A o \in DOMAIN world'.owner_map : world'.owner_map[o] >= 0]_vars

====
